---- MODULE Spec2Model ----
(***************************************************************************)
(* Monero signing, step 6 (set_output) of trezor-firmware:                 *)
(* core/src/apps/monero/signing/step_06_set_output.py                      *)
(*                                                                         *)
(* The State object is one record variable, `state`; every Python function *)
(* of the step is an operator from a state (and arguments) to a frame      *)
(* [st, exc, ret]: the state as the function leaves it, the exception it   *)
(* raised (NoExc when it returned) and its return value.  A Python value   *)
(* that may be None is a sequence of length at most one: None is <<>>,     *)
(* a value v is <<v>>.                                                     *)
(***************************************************************************)
EXTENDS Integers, Sequences, FiniteSets, TLC

\* ------------------------------------------------------------------ bounds
MaxOutputs == 3
NumInputs == 1
\* groupings on which the batching functions are applied on their own
MaxBatches == 3
MaxBatchSize == 3
\* scalars and amounts on which the key and commitment functions are applied
MaxScalar == 3
MaxAmount == 12

\* ---------------------------------------------------------- Python values
None == <<>>
Some(x) == <<x>>
IsNone(o) == Len(o) = 0
Val(o) == o[1]

NoExc == "NoExc"
Frame(s, r) == [st |-> s, exc |-> NoExc, ret |-> r]
Raise(s, e) == [st |-> s, exc |-> e, ret |-> None]
\* the rest of a function, G, runs on the frame f unless f raised
Bind(f, G(_)) == IF f.exc # NoExc THEN Raise(f.st, f.exc) ELSE G(f)

RECURSIVE PySum(_)
PySum(seq) == IF Len(seq) = 0 THEN 0 ELSE Head(seq) + PySum(Tail(seq))

\* seq[i] with Python's negative indices
PyIndex(seq, i) == IF i < 0 THEN seq[Len(seq) + i + 1] ELSE seq[i + 1]

\* seq[:b] with Python's clamping and negative bounds
PyPrefix(seq, b) ==
    LET n == Len(seq)
        e == IF b < 0 THEN (IF n + b < 0 THEN 0 ELSE n + b)
                      ELSE (IF b > n THEN n ELSE b)
    IN SubSeq(seq, 1, e)

\* ------------------------------------------------- protocol step constants
STEP_VINI == "STEP_VINI"
STEP_ALL_IN == "STEP_ALL_IN"
STEP_OUT == "STEP_OUT"

\* ------------------------------------- crypto collaborators (apps.monero.xmr)
\* Scalars are integers modulo the group order; a point a*G + b*H is <<a, b>>.
GroupOrder == 11
INV_EIGHT == 7

sc_add(a, b) == (a + b) % GroupOrder
sc_mul(a, b) == (a * b) % GroupOrder
Scalar(n) == n % GroupOrder
scalarmult_base(s) == <<s % GroupOrder, 0>>
scalarmult(P, s) == <<(P[1] * s) % GroupOrder, (P[2] * s) % GroupOrder>>
point_add(P, Q) == <<(P[1] + Q[1]) % GroupOrder, (P[2] + Q[2]) % GroupOrder>>
\* a*G + b*H
gen_commitment(a, amount) == <<a % GroupOrder, amount % GroupOrder>>
add_keys2(a, b, B) == point_add(scalarmult_base(a), scalarmult(B, b))
xmr_H == <<0, 1>>

encodepoint(P) == <<"point32", P>>
decodepoint(b) == b[2]
encodeint(s) == <<"int32", s>>

\* 8 * priv * pub
generate_key_derivation(pub, priv) == scalarmult(pub, (8 * priv) % GroupOrder)
\* H_s(derivation || varint(idx))
derivation_to_scalar(derivation, idx) ==
    (3 * derivation[1] + 5 * derivation[2] + 7 * idx + 1) % GroupOrder
\* H_s(derivation || idx)*G + B
derive_public_key(derivation, idx, B) ==
    point_add(scalarmult_base(derivation_to_scalar(derivation, idx)), B)
\* H_s("commitment_mask" || key)
commitment_mask(key) == (2 * key[2] + 3) % GroupOrder

\* offloading_keys: keyed MACs, collision free on their arguments
gen_hmac_tsxdest(key, dst_entr, idx) == <<"txdest", key, dst_entr, idx>>
gen_hmac_vouti(key, dst_entr, tx_out_bin, idx) ==
    <<"txout", key, dst_entr, tx_out_bin, idx>>

\* ------------------------------------------------ session keys (read only)
key_hmac == "key_hmac"
tx_priv == 2
tx_pub == scalarmult_base(tx_priv)
view_key_private == 3
ChangeAddr == [spend_public_key |-> encodepoint(<<5, 0>>),
               view_public_key |-> encodepoint(scalarmult_base(view_key_private))]
OtherAddr == [spend_public_key |-> encodepoint(<<4, 0>>),
              view_public_key |-> encodepoint(<<6, 0>>)]
change_address == Some(ChangeAddr)
addr_eq(a, b) == a.spend_public_key = b.spend_public_key
                 /\ a.view_public_key = b.view_public_key

\* ------------------------------------------------------------- batching
RECURSIVE GetRsigBatchLoop(_, _, _, _)
GetRsigBatchLoop(g, idx, r, c) ==
    IF c < idx + 1
    THEN IF r >= Len(g) THEN [exc |-> "IndexError", ret |-> 0]
         ELSE GetRsigBatchLoop(g, idx, r + 1, c + g[r + 1])
    ELSE [exc |-> NoExc, ret |-> r - 1]

_get_rsig_batch_OffByOne(state, idx) ==
    GetRsigBatchLoop(state.rsig_grouping, idx + 1, 0, 0)

\* Returns index of the current rsig batch
_get_rsig_batch(state, idx) == GetRsigBatchLoop(state.rsig_grouping, idx, 0, 0)

_is_last_in_batch_NoPrefix(state, idx, bidx) ==
    LET batch_size == PyIndex(state.rsig_grouping, bidx)
    IN idx + 1 = batch_size

\* Returns true if the current output is last in the rsig batch
_is_last_in_batch(state, idx, bidx) ==
    LET batch_size == PyIndex(state.rsig_grouping, bidx)
    IN (idx - PySum(PyPrefix(state.rsig_grouping, bidx))) + 1 = batch_size

\* ---------------------------------- range proofs (range_signatures, serialize)
\* number of L (and R) elements of a proof over n outputs: log2(N * M), M the
\* next power of two >= n, N the bit width of the range (here N = 2)
BpRounds(n) == IF n <= 1 THEN 1 ELSE IF n = 2 THEN 2 ELSE IF n <= 4 THEN 3 ELSE 4
BpLR(tag, n) == [i \in 1..BpRounds(n) |-> <<tag, i>>]

\* the first element commits to the statement (the batch's amounts and masks);
\* the commitment vector V is not part of the proof object that is hashed
prove_range_bp_batch(amounts, masks, bp_plus) ==
    IF bp_plus
    THEN [A |-> <<"A", amounts, masks>>, A1 |-> <<"A1">>, B |-> <<"B">>,
          r1 |-> <<"r1">>, s1 |-> <<"s1">>, d1 |-> <<"d1">>,
          L |-> BpLR("L", Len(amounts)), R |-> BpLR("R", Len(amounts))]
    ELSE [A |-> <<"A", amounts, masks>>, S |-> <<"S">>, T1 |-> <<"T1">>,
          T2 |-> <<"T2">>, taux |-> <<"taux">>, mu |-> <<"mu">>,
          L |-> BpLR("L", Len(amounts)), R |-> BpLR("R", Len(amounts)),
          a |-> <<"a">>, b |-> <<"b">>, t |-> <<"t">>]

verify_bp(bp_obj, amounts, masks) ==
    \E plus \in BOOLEAN : bp_obj = prove_range_bp_batch(amounts, masks, plus)

\* a serialized buffer is a sequence of cells: <<"len", n>> is one count byte,
\* <<"el32", x>> is the 32 bytes of element x
LenCell(n) == <<"len", n>>
El32(x) == <<"el32", x>>
Cells(seq) == [i \in 1..Len(seq) |-> El32(seq[i])]
Uncell(cells) == [i \in 1..Len(cells) |-> cells[i][2]]
IsEls(cells) == \A i \in 1..Len(cells) : cells[i][1] = "el32"

\* serialize.parse_msg(buf, Bulletproof | BulletproofPlus): six elements,
\* varint count + L, varint count + R, and for the legacy layout a, b, t
parse_msg(buf, bp_plus) ==
    LET n == Len(buf)
        tail == IF bp_plus THEN 0 ELSE 3
        nL == buf[7][2]
        nR == buf[8 + nL][2]
        ok == /\ n >= 8 + tail
              /\ IsEls(SubSeq(buf, 1, 6))
              /\ buf[7][1] = "len"
              /\ n >= 8 + nL + tail
              /\ IsEls(SubSeq(buf, 8, 7 + nL))
              /\ buf[8 + nL][1] = "len"
              /\ n = 8 + nL + nR + tail
              /\ IsEls(SubSeq(buf, 9 + nL, n))
        h == Uncell(SubSeq(buf, 1, 6))
        L == Uncell(SubSeq(buf, 8, 7 + nL))
        R == Uncell(SubSeq(buf, 9 + nL, 8 + nL + nR))
        z == Uncell(SubSeq(buf, n - 2, n))
    IN IF ~ok THEN [exc |-> "ParseError", ret |-> None]
       ELSE IF bp_plus
       THEN [exc |-> NoExc,
             ret |-> Some([A |-> h[1], A1 |-> h[2], B |-> h[3], r1 |-> h[4],
                           s1 |-> h[5], d1 |-> h[6], L |-> L, R |-> R])]
       ELSE [exc |-> NoExc,
             ret |-> Some([A |-> h[1], S |-> h[2], T1 |-> h[3], T2 |-> h[4],
                           taux |-> h[5], mu |-> h[6], L |-> L, R |-> R,
                           a |-> z[1], b |-> z[2], t |-> z[3]])]

\* bytes a cell takes; <<"zeros", n>> is a run of n bytes never written
CellBytes(c) == IF c[1] = "len" THEN 1 ELSE IF c[1] = "el32" THEN 32 ELSE c[2]

\* bytes of a sequence of cells (a run of unwritten bytes can only be last)
BufBytes(cells) ==
    Cardinality({i \in 1..Len(cells) : cells[i][1] = "len"})
    + 32 * Cardinality({i \in 1..Len(cells) : cells[i][1] = "el32"})
    + (IF Len(cells) > 0 /\ cells[Len(cells)][1] = "zeros"
       THEN cells[Len(cells)][2] ELSE 0)

\* the cells, written one after the other from offset 0, that lie inside a
\* buffer of `size` bytes (utils.memcpy copies nothing past the end): those
\* before the first one that does not fit
WrittenCells(cells, size) ==
    LET Fits(i) == BufBytes(SubSeq(cells, 1, i)) <= size
    IN IF \A i \in 1..Len(cells) : Fits(i)
       THEN cells
       ELSE SubSeq(cells, 1,
                   (CHOOSE i \in 1..Len(cells) :
                        ~Fits(i) /\ \A j \in 1..(i - 1) : Fits(j)) - 1)

\* bytearray(buff_size) after the writes: what was written, then the bytes
\* left at zero
Filled(buff_size, cells) ==
    LET w == WrittenCells(cells, buff_size)
        rest == buff_size - BufBytes(w)
    IN IF rest > 0 THEN Append(w, <<"zeros", rest>>) ELSE w

\* largest element count a single count byte may carry
MAX_LR == 127

_dump_rsig_lr_OneCount(rsig) ==
    <<LenCell(Len(rsig.L))>> \o Cells(rsig.L) \o Cells(rsig.R)

_dump_rsig_lr(rsig) ==
    <<LenCell(Len(rsig.L))>> \o Cells(rsig.L) \o <<LenCell(Len(rsig.R))>> \o Cells(rsig.R)

_dump_rsig_bp(rsig) ==
    IF Len(rsig.L) > MAX_LR THEN [exc |-> "Too large", ret |-> <<>>]
    ELSE [exc |-> NoExc,
          ret |-> Filled(32 * (9 + 2 * Len(rsig.L)) + 2,
                         Cells(<<rsig.A, rsig.S, rsig.T1, rsig.T2, rsig.taux, rsig.mu>>)
                         \o _dump_rsig_lr(rsig)
                         \o Cells(<<rsig.a, rsig.b, rsig.t>>))]

_dump_rsig_bp_plus(rsig) ==
    IF Len(rsig.L) > MAX_LR THEN [exc |-> "Too large", ret |-> <<>>]
    ELSE [exc |-> NoExc,
          ret |-> Filled(32 * (6 + 2 * Len(rsig.L)) + 2,
                         Cells(<<rsig.A, rsig.A1, rsig.B, rsig.r1, rsig.s1, rsig.d1>>)
                         \o _dump_rsig_lr(rsig))]

_return_rsig_data_AlwaysObject(rsig, mask) ==
    Some([mask |-> mask, rsig |-> rsig])

_return_rsig_data(rsig, mask) ==
    IF IsNone(rsig) /\ IsNone(mask) THEN None
    ELSE Some([mask |-> mask, rsig |-> rsig])

\* ----------------------------------------------------------- _validate
\* the step and offload-flag checks
ValidateTransition(state, is_offloaded_bp) ==
    IF state.last_step \notin {STEP_ALL_IN, STEP_OUT}
    THEN Raise(state, "Invalid state transition")
    ELSE IF is_offloaded_bp /\ ~state.rsig_offload
    THEN Raise(state, "Extraneous offloaded msg")
    ELSE Frame(state, None)

ValidateOffloadOrder_NoCheck(state, is_offloaded_bp) ==
    IF ~state.rsig_offload
    THEN Frame(state, None)
    ELSE Frame([state EXCEPT !.is_processing_offloaded = is_offloaded_bp], None)

ValidateOffloadOrder_FirstPassOnly(state, is_offloaded_bp) ==
    IF ~state.rsig_offload
    THEN Frame(state, None)
    ELSE
    LET bidx == _get_rsig_batch(state, state.current_output_index)
        last_in_batch ==
            _is_last_in_batch(state, state.current_output_index, bidx.ret)
    IN IF bidx.exc # NoExc
       THEN Raise(state, bidx.exc)
       ELSE IF ~is_offloaded_bp
               /\ ~(~last_in_batch \/ state.is_processing_offloaded # is_offloaded_bp)
       THEN Raise(state, "Offloaded BP out of order")
       ELSE Frame([state EXCEPT !.is_processing_offloaded = is_offloaded_bp], None)

\* offloading: at the last output of a batch first pass and follow-up alternate
ValidateOffloadOrder(state, is_offloaded_bp) ==
    IF ~state.rsig_offload
    THEN Frame(state, None)
    ELSE
    LET bidx == _get_rsig_batch(state, state.current_output_index)
        last_in_batch ==
            _is_last_in_batch(state, state.current_output_index, bidx.ret)
    IN IF bidx.exc # NoExc
       THEN Raise(state, bidx.exc)
       ELSE IF ~(~last_in_batch \/ state.is_processing_offloaded # is_offloaded_bp)
       THEN Raise(state, "Offloaded BP out of order")
       ELSE Frame([state EXCEPT !.is_processing_offloaded = is_offloaded_bp], None)

AdvanceOutputIndex_Always(state) ==
    [state EXCEPT !.current_output_index = @ + 1]

AdvanceOutputIndex(state) ==
    IF ~state.is_processing_offloaded
    THEN [state EXCEPT !.current_output_index = @ + 1]
    ELSE state

ValidateCounts_NoAmountCheck(state, dst_entr) ==
    IF ~(state.current_input_index + 1 = state.input_count)
    THEN Raise(state, "Invalid number of inputs")
    ELSE IF ~(state.current_output_index < state.output_count)
    THEN Raise(state, "Invalid output index")
    ELSE Frame(state, None)

ValidateCounts_NoInputCheck(state, dst_entr) ==
    IF ~(IsNone(dst_entr) \/ Val(dst_entr).amount >= 0)
    THEN Raise(state, "Destination with negative amount")
    ELSE IF ~(state.current_output_index < state.output_count)
    THEN Raise(state, "Invalid output index")
    ELSE Frame(state, None)

ValidateCounts_OffByOne(state, dst_entr) ==
    IF ~(IsNone(dst_entr) \/ Val(dst_entr).amount >= 0)
    THEN Raise(state, "Destination with negative amount")
    ELSE IF ~(state.current_input_index + 1 = state.input_count)
    THEN Raise(state, "Invalid number of inputs")
    ELSE IF ~(state.current_output_index + 1 < state.output_count)
    THEN Raise(state, "Invalid output index")
    ELSE Frame(state, None)

\* amount, input count and output index
ValidateCounts(state, dst_entr) ==
    IF ~(IsNone(dst_entr) \/ Val(dst_entr).amount >= 0)
    THEN Raise(state, "Destination with negative amount")
    ELSE IF ~(state.current_input_index + 1 = state.input_count)
    THEN Raise(state, "Invalid number of inputs")
    ELSE IF ~(state.current_output_index < state.output_count)
    THEN Raise(state, "Invalid output index")
    ELSE Frame(state, None)

ValidateHmac_StaleIndex(state, dst_entr, dst_entr_hmac) ==
    IF state.is_processing_offloaded
    THEN Frame(state, None)
    ELSE IF IsNone(dst_entr)
    THEN Raise(state, "AttributeError")
    ELSE IF dst_entr_hmac
            # gen_hmac_tsxdest(key_hmac, Val(dst_entr), state.current_output_index - 1)
    THEN Raise(state, "HMAC failed")
    ELSE Frame(state, dst_entr)

\* HMAC check of the destination (the MAC serializes dst_entr, which a
\* missing entry does not allow); ret: the entry, None on a follow-up
ValidateHmac(state, dst_entr, dst_entr_hmac) ==
    IF state.is_processing_offloaded
    THEN Frame(state, None)
    ELSE IF IsNone(dst_entr)
    THEN Raise(state, "AttributeError")
    ELSE IF dst_entr_hmac
            # gen_hmac_tsxdest(key_hmac, Val(dst_entr), state.current_output_index)
    THEN Raise(state, "HMAC failed")
    ELSE Frame(state, dst_entr)

_validate(state, dst_entr, dst_entr_hmac, is_offloaded_bp) ==
    Bind(ValidateTransition(state, is_offloaded_bp), LAMBDA f1 :
    Bind(ValidateOffloadOrder(f1.st, is_offloaded_bp), LAMBDA f2 :
    Bind(ValidateCounts(AdvanceOutputIndex(f2.st), dst_entr), LAMBDA f3 :
    ValidateHmac(f3.st, dst_entr, dst_entr_hmac))))

\* ------------------------------------------------------ key derivation
_set_out_additional_keys_AlwaysBase(state, dst_entr, random_scalar) ==
    IF ~state.need_additional_txkeys
    THEN Frame(state, None)
    ELSE
    LET additional_txkey_priv == random_scalar
        additional_txkey == scalarmult_base(additional_txkey_priv)
    IN Frame([state EXCEPT
                !.additional_tx_public_keys = Append(@, encodepoint(additional_txkey)),
                !.additional_tx_private_keys = Append(@, additional_txkey_priv)],
             Some(additional_txkey_priv))

\* ret: the additional tx private key, or None
_set_out_additional_keys(state, dst_entr, random_scalar) ==
    IF ~state.need_additional_txkeys
    THEN Frame(state, None)
    ELSE
    LET additional_txkey_priv == random_scalar
        additional_txkey ==
            IF dst_entr.is_subaddress
            THEN scalarmult(decodepoint(dst_entr.addr.spend_public_key),
                            additional_txkey_priv)
            ELSE scalarmult_base(additional_txkey_priv)
    IN Frame([state EXCEPT
                !.additional_tx_public_keys = Append(@, encodepoint(additional_txkey)),
                !.additional_tx_private_keys = Append(@, additional_txkey_priv)],
             Some(additional_txkey_priv))

_set_out_derivation_SubaddressFirst(state, dst_entr, additional_txkey_priv) ==
    IF dst_entr.is_subaddress /\ state.need_additional_txkeys
    THEN generate_key_derivation(decodepoint(dst_entr.addr.view_public_key),
                                 Val(additional_txkey_priv))
    ELSE IF ~IsNone(change_address) /\ addr_eq(dst_entr.addr, Val(change_address))
    THEN generate_key_derivation(tx_pub, view_key_private)
    ELSE generate_key_derivation(decodepoint(dst_entr.addr.view_public_key), tx_priv)

_set_out_derivation(state, dst_entr, additional_txkey_priv) ==
    IF ~IsNone(change_address) /\ addr_eq(dst_entr.addr, Val(change_address))
    THEN generate_key_derivation(tx_pub, view_key_private)
    ELSE
    LET deriv_priv == IF dst_entr.is_subaddress /\ state.need_additional_txkeys
                      THEN Val(additional_txkey_priv)
                      ELSE tx_priv
    IN generate_key_derivation(decodepoint(dst_entr.addr.view_public_key), deriv_priv)

_compute_tx_keys_MaskPrepended(state, dst_entr, random_scalar) ==
    IF state.is_processing_offloaded
    THEN Frame(state, <<None, None>>)
    ELSE
    LET f1 == _set_out_additional_keys(state, Val(dst_entr), random_scalar)
        derivation == _set_out_derivation(f1.st, Val(dst_entr), f1.ret)
        amount_key == derivation_to_scalar(derivation, f1.st.current_output_index)
        tx_out_key ==
            derive_public_key(derivation, f1.st.current_output_index,
                              decodepoint(Val(dst_entr).addr.spend_public_key))
        mask == commitment_mask(encodeint(amount_key))
    IN IF IsNone(f1.st.output_masks)
       THEN Raise(f1.st, "AttributeError")
       ELSE Frame([f1.st EXCEPT !.output_masks = Some(<<mask>> \o Val(@))],
                  <<Some(tx_out_key), Some(amount_key)>>)

_compute_tx_keys_OnFollowup(state, dst_entr, random_scalar) ==
    IF state.is_processing_offloaded
    THEN Frame([state EXCEPT
                  !.additional_tx_private_keys = Append(@, random_scalar)],
               <<None, None>>)
    ELSE
    LET f1 == _set_out_additional_keys(state, Val(dst_entr), random_scalar)
        derivation == _set_out_derivation(f1.st, Val(dst_entr), f1.ret)
        amount_key == derivation_to_scalar(derivation, f1.st.current_output_index)
        tx_out_key ==
            derive_public_key(derivation, f1.st.current_output_index,
                              decodepoint(Val(dst_entr).addr.spend_public_key))
        mask == commitment_mask(encodeint(amount_key))
    IN IF IsNone(f1.st.output_masks)
       THEN Raise(f1.st, "AttributeError")
       ELSE Frame([f1.st EXCEPT !.output_masks = Some(Append(Val(@), mask))],
                  <<Some(tx_out_key), Some(amount_key)>>)

\* ret: <<tx_out_key, amount_key>>, both None on an offloaded follow-up
_compute_tx_keys(state, dst_entr, random_scalar) ==
    IF state.is_processing_offloaded
    THEN Frame(state, <<None, None>>)
    ELSE
    LET f1 == _set_out_additional_keys(state, Val(dst_entr), random_scalar)
        derivation == _set_out_derivation(f1.st, Val(dst_entr), f1.ret)
        amount_key == derivation_to_scalar(derivation, f1.st.current_output_index)
        tx_out_key ==
            derive_public_key(derivation, f1.st.current_output_index,
                              decodepoint(Val(dst_entr).addr.spend_public_key))
        mask == commitment_mask(encodeint(amount_key))
    IN IF IsNone(f1.st.output_masks)
       THEN Raise(f1.st, "AttributeError")
       ELSE Frame([f1.st EXCEPT !.output_masks = Some(Append(Val(@), mask))],
                  <<Some(tx_out_key), Some(amount_key)>>)

\* ------------------------------------------------------- range proof
_rsig_bp_NoCleanup(state) ==
    LET rsig == prove_range_bp_batch(Val(state.output_amounts),
                                     Val(state.output_masks),
                                     state.rsig_is_bp_plus)
        s1 == [state EXCEPT
                 !.full_message_hasher = Append(@, <<"rsig_val", rsig>>)]
        ser == IF state.rsig_is_bp_plus
               THEN _dump_rsig_bp_plus(rsig)
               ELSE _dump_rsig_bp(rsig)
    IN IF ser.exc # NoExc THEN Raise(s1, ser.exc) ELSE Frame(s1, ser.ret)

_rsig_bp_NoHash(state) ==
    LET rsig == prove_range_bp_batch(Val(state.output_amounts),
                                     Val(state.output_masks),
                                     state.rsig_is_bp_plus)
        ser == IF state.rsig_is_bp_plus
               THEN _dump_rsig_bp_plus(rsig)
               ELSE _dump_rsig_bp(rsig)
    IN IF ser.exc # NoExc
       THEN Raise(state, ser.exc)
       ELSE Frame([state EXCEPT !.output_masks = Some(<<>>),
                                !.output_amounts = Some(<<>>)],
                  ser.ret)

\* Bulletproof calculation in trezor; ret: the serialized proof
_rsig_bp(state) ==
    LET rsig == prove_range_bp_batch(Val(state.output_amounts),
                                     Val(state.output_masks),
                                     state.rsig_is_bp_plus)
        s1 == [state EXCEPT
                 !.full_message_hasher = Append(@, <<"rsig_val", rsig>>)]
        ser == IF state.rsig_is_bp_plus
               THEN _dump_rsig_bp_plus(rsig)
               ELSE _dump_rsig_bp(rsig)
    IN IF ser.exc # NoExc
       THEN Raise(s1, ser.exc)
       ELSE Frame([s1 EXCEPT !.output_masks = Some(<<>>),
                             !.output_amounts = Some(<<>>)],
                  ser.ret)

_rsig_process_bp_NoVerify(state, rsig_data) ==
    LET bp_obj == parse_msg(Val(rsig_data).rsig, state.rsig_is_bp_plus)
        s1 == [state EXCEPT
                 !.full_message_hasher = Append(@, <<"rsig_val", Val(bp_obj.ret)>>)]
    IN IF bp_obj.exc # NoExc
       THEN Raise(state, bp_obj.exc)
       ELSE Frame([s1 EXCEPT !.output_amounts = Some(<<>>),
                             !.output_masks = Some(<<>>)],
                  None)

_rsig_process_bp_NoCleanup(state, rsig_data) ==
    LET bp_obj == parse_msg(Val(rsig_data).rsig, state.rsig_is_bp_plus)
        s1 == [state EXCEPT
                 !.full_message_hasher = Append(@, <<"rsig_val", Val(bp_obj.ret)>>)]
        res == verify_bp(Val(bp_obj.ret), Val(s1.output_amounts),
                         Val(s1.output_masks))
    IN IF bp_obj.exc # NoExc
       THEN Raise(state, bp_obj.exc)
       ELSE IF ~res
       THEN Raise(s1, "BP verification fail")
       ELSE Frame(s1, None)

\* Bulletproof offloaded to the host: parse it, hash it, check it
_rsig_process_bp(state, rsig_data) ==
    LET bp_obj == parse_msg(Val(rsig_data).rsig, state.rsig_is_bp_plus)
        s1 == [state EXCEPT
                 !.full_message_hasher = Append(@, <<"rsig_val", Val(bp_obj.ret)>>)]
        res == verify_bp(Val(bp_obj.ret), Val(s1.output_amounts),
                         Val(s1.output_masks))
    IN IF bp_obj.exc # NoExc
       THEN Raise(state, bp_obj.exc)
       ELSE IF ~res
       THEN Raise(s1, "BP verification fail")
       ELSE Frame([s1 EXCEPT !.output_amounts = Some(<<>>),
                             !.output_masks = Some(<<>>)],
                  None)

RangeProofGuards_ExpectedOnFirstPass(state, provided, bidx_exc, last_in_batch) ==
    IF ~state.rsig_offload /\ provided
    THEN "Provided unexpected rsig"
    ELSE IF bidx_exc # NoExc
    THEN bidx_exc
    ELSE IF state.rsig_offload /\ provided /\ ~last_in_batch
    THEN "Provided rsig too early"
    ELSE IF state.rsig_offload /\ last_in_batch /\ ~provided
    THEN "Rsig expected, not provided"
    ELSE NoExc

RangeProofGuards_NoUnexpected(state, provided, bidx_exc, last_in_batch) ==
    IF bidx_exc # NoExc
    THEN bidx_exc
    ELSE IF state.rsig_offload /\ provided /\ ~last_in_batch
    THEN "Provided rsig too early"
    ELSE IF state.rsig_offload /\ last_in_batch /\ ~provided
            /\ state.is_processing_offloaded
    THEN "Rsig expected, not provided"
    ELSE NoExc

RangeProofGuards_NoTooEarly(state, provided, bidx_exc, last_in_batch) ==
    IF ~state.rsig_offload /\ provided
    THEN "Provided unexpected rsig"
    ELSE IF bidx_exc # NoExc
    THEN bidx_exc
    ELSE IF state.rsig_offload /\ last_in_batch /\ ~provided
            /\ state.is_processing_offloaded
    THEN "Rsig expected, not provided"
    ELSE NoExc

\* batching & validation of _range_proof: the exception it raises, or NoExc
RangeProofGuards(state, provided, bidx_exc, last_in_batch) ==
    IF ~state.rsig_offload /\ provided
    THEN "Provided unexpected rsig"
    ELSE IF bidx_exc # NoExc
    THEN bidx_exc
    ELSE IF state.rsig_offload /\ provided /\ ~last_in_batch
    THEN "Provided rsig too early"
    ELSE IF state.rsig_offload /\ last_in_batch /\ ~provided
            /\ state.is_processing_offloaded
    THEN "Rsig expected, not provided"
    ELSE NoExc

ReleaseAccumulators_OnFirstPass(state) ==
    IF state.current_output_index + 1 = state.output_count
    THEN [state EXCEPT !.output_amounts = None, !.output_masks = None]
    ELSE state

\* output masks and amounts are not needed anymore
ReleaseAccumulators(state) ==
    IF state.current_output_index + 1 = state.output_count
       /\ (~state.rsig_offload \/ state.is_processing_offloaded)
    THEN [state EXCEPT !.output_amounts = None, !.output_masks = None]
    ELSE state

\* ret: <<rsig_data_new, mask>>
_range_proof(state, rsig_data) ==
    LET provided_rsig == IF ~IsNone(rsig_data) /\ Len(Val(rsig_data).rsig) > 0
                         THEN Val(rsig_data).rsig
                         ELSE <<>>
        provided == Len(provided_rsig) > 0
        bidx == _get_rsig_batch(state, state.current_output_index)
        last_in_batch ==
            _is_last_in_batch(state, state.current_output_index, bidx.ret)
        guard == RangeProofGuards(state, provided, bidx.exc, last_in_batch)
        mask == IF ~state.is_processing_offloaded
                THEN Some(PyIndex(Val(state.output_masks), -1))
                ELSE None
        offload_mask == ~IsNone(mask) /\ state.rsig_offload
        wrapped == IF offload_mask THEN Some(encodeint(Val(mask))) ELSE None
        f == IF ~state.rsig_offload
             THEN LET g == _rsig_bp(state)
                  IN [st |-> g.st, exc |-> g.exc, ret |-> Some(g.ret)]
             ELSE IF ~state.is_processing_offloaded
             THEN Frame(state, None)
             ELSE _rsig_process_bp(state, rsig_data)
    IN
    IF guard # NoExc
    THEN Raise(state, guard)
    ELSE IF ~last_in_batch
    THEN Frame(state, <<_return_rsig_data(None, wrapped), mask>>)
    ELSE IF f.exc # NoExc
    THEN Raise(f.st, f.exc)
    ELSE Frame(ReleaseAccumulators(f.st),
               <<_return_rsig_data(f.ret, wrapped), mask>>)

\* ------------------------------------------- output record, ECDH, out_pk
_set_out_tx_out_HmacOverKey(state, dst_entr, tx_out_key) ==
    LET tx_out_bin == <<0, 2, encodepoint(tx_out_key)>>
        s1 == [state EXCEPT !.tx_prefix_hasher = Append(@, <<"buffer", tx_out_bin>>)]
        hmac_vouti == gen_hmac_vouti(key_hmac, dst_entr, encodepoint(tx_out_key),
                                     s1.current_output_index)
    IN Frame(s1, <<tx_out_bin, hmac_vouti>>)

_set_out_tx_out_NoHash(state, dst_entr, tx_out_key) ==
    LET tx_out_bin == <<0, 2, encodepoint(tx_out_key)>>
        hmac_vouti == gen_hmac_vouti(key_hmac, dst_entr, tx_out_bin,
                                     state.current_output_index)
    IN Frame(state, <<tx_out_bin, hmac_vouti>>)

\* Manually serializes TxOut(0, TxoutToKey(key)) and calculates hmac.
\* ret: <<tx_out_bin, hmac_vouti>>
_set_out_tx_out(state, dst_entr, tx_out_key) ==
    LET tx_out_bin == <<0, 2, encodepoint(tx_out_key)>>
        s1 == [state EXCEPT !.tx_prefix_hasher = Append(@, <<"buffer", tx_out_bin>>)]
        hmac_vouti == gen_hmac_vouti(key_hmac, dst_entr, tx_out_bin,
                                     s1.current_output_index)
    IN Frame(s1, <<tx_out_bin, hmac_vouti>>)

RECURSIVE BitXor(_, _)
BitXor(a, b) ==
    IF a = 0 THEN b ELSE IF b = 0 THEN a
    ELSE (((a % 2) + (b % 2)) % 2) + (2 * BitXor(a \div 2, b \div 2))

\* XOR of the first 8 bytes of two little-endian buffers
xor8(buf, key) == <<buf[1], BitXor(buf[2], key[2])>>

\* keccak("amount" || shared_sec)
fast_hash(tag, shared_sec) == <<"hash32", (5 * shared_sec[2] + 2) % 16>>
_ecdh_hash(shared_sec) == fast_hash("amount", shared_sec)

NULL_KEY_ENC == <<"int32", 0>>

_ecdh_encode_Plain(amount, amount_key) ==
    LET amnt == Scalar(amount)
    IN [mask |-> NULL_KEY_ENC, amount |-> encodeint(amnt)]

_ecdh_encode(amount, amount_key) ==
    LET amnt == Scalar(amount)
    IN [mask |-> NULL_KEY_ENC,
        amount |-> xor8(encodeint(amnt), _ecdh_hash(amount_key))]

\* ecdh_info.amount[0:8]
_serialize_ecdh(ecdh_info) == <<"bytes8", ecdh_info.amount[2]>>

_get_ecdh_info_and_out_pk_AmountUnscaled(state, tx_out_key, amount, mask, amount_key) ==
    LET out_pk_dest == encodepoint(tx_out_key)
        inv8 == INV_EIGHT
        mask8 == sc_mul(mask, inv8)
        amnt8 == Scalar(amount)
        out_pk_commitment ==
            IF state.rsig_is_bp_plus
            THEN add_keys2(mask8, amnt8, xmr_H)
            ELSE gen_commitment(mask, amount)
        s1 == [state EXCEPT !.sumout = sc_add(@, mask)]
        ecdh_info == _ecdh_encode(amount, encodeint(amount_key))
    IN Frame(s1, <<out_pk_dest, encodepoint(out_pk_commitment),
                   _serialize_ecdh(ecdh_info)>>)

_get_ecdh_info_and_out_pk_NoSum(state, tx_out_key, amount, mask, amount_key) ==
    LET out_pk_dest == encodepoint(tx_out_key)
        inv8 == INV_EIGHT
        mask8 == sc_mul(mask, inv8)
        amnt8 == sc_mul(Scalar(amount), inv8)
        out_pk_commitment ==
            IF state.rsig_is_bp_plus
            THEN add_keys2(mask8, amnt8, xmr_H)
            ELSE gen_commitment(mask, amount)
        ecdh_info == _ecdh_encode(amount, encodeint(amount_key))
    IN Frame(state, <<out_pk_dest, encodepoint(out_pk_commitment),
                      _serialize_ecdh(ecdh_info)>>)

\* ret: <<out_pk_dest, out_pk_commitment, ecdh_info_bin>>
_get_ecdh_info_and_out_pk(state, tx_out_key, amount, mask, amount_key) ==
    LET out_pk_dest == encodepoint(tx_out_key)
        inv8 == INV_EIGHT
        mask8 == sc_mul(mask, inv8)
        amnt8 == sc_mul(Scalar(amount), inv8)
        out_pk_commitment ==
            IF state.rsig_is_bp_plus
            THEN add_keys2(mask8, amnt8, xmr_H)
            ELSE gen_commitment(mask, amount)
        s1 == [state EXCEPT !.sumout = sc_add(@, mask)]
        ecdh_info == _ecdh_encode(amount, encodeint(amount_key))
    IN Frame(s1, <<out_pk_dest, encodepoint(out_pk_commitment),
                   _serialize_ecdh(ecdh_info)>>)

\* ------------------------------------------------------------ set_output
EmptyAck == [tx_out |-> None, vouti_hmac |-> None, rsig_data |-> None,
             out_pk |-> None, ecdh_info |-> None]

SetOutputBegin_PrimeOnFollowup(state, dst_entr) ==
    LET s1 == IF state.current_output_index = 0
              THEN [state EXCEPT
                      !.tx_prefix_hasher = Append(@, <<"uvarint", state.output_count>>)]
              ELSE state
    IN IF state.is_processing_offloaded
       THEN Frame(s1, None)
       ELSE IF IsNone(s1.output_amounts)
       THEN Raise(s1, "AttributeError")
       ELSE Frame([s1 EXCEPT
                     !.output_amounts = Some(Append(Val(@), Val(dst_entr).amount)),
                     !.summary_outs_money = @ + Val(dst_entr).amount],
                  None)

\* state as set_output leaves it before the tx keys are computed
SetOutputBegin(state, dst_entr) ==
    IF state.is_processing_offloaded
    THEN Frame(state, None)
    ELSE
    LET s1 == IF state.current_output_index = 0
              THEN [state EXCEPT
                      !.tx_prefix_hasher = Append(@, <<"uvarint", state.output_count>>)]
              ELSE state
    IN IF IsNone(s1.output_amounts)
       THEN Raise(s1, "AttributeError")
       ELSE Frame([s1 EXCEPT
                     !.output_amounts = Some(Append(Val(@), Val(dst_entr).amount)),
                     !.summary_outs_money = @ + Val(dst_entr).amount],
                  None)

SetOutputFinish_Overwrite(state, dst_entr, tx_out_key, amount_key, rsig_data_new, mask) ==
    LET f1 == _set_out_tx_out(state, dst_entr, tx_out_key)
        f2 == _get_ecdh_info_and_out_pk(f1.st, tx_out_key, dst_entr.amount,
                                        mask, amount_key)
        out_pk_dest == f2.ret[1]
        out_pk_commitment == f2.ret[2]
        ecdh_info_bin == f2.ret[3]
        s3 == [f2.st EXCEPT
                 !.full_message_hasher = Append(@, <<"set_ecdh", ecdh_info_bin>>),
                 !.output_pk_commitments = <<out_pk_commitment>>,
                 !.last_step = STEP_OUT]
    IN Frame(s3, [tx_out |-> Some(f1.ret[1]),
                  vouti_hmac |-> Some(f1.ret[2]),
                  rsig_data |-> rsig_data_new,
                  out_pk |-> Some(<<out_pk_dest, out_pk_commitment>>),
                  ecdh_info |-> Some(ecdh_info_bin)])

\* tx header prefix hashing, ECDH info, out_pk; ret: the acknowledgement
SetOutputFinish(state, dst_entr, tx_out_key, amount_key, rsig_data_new, mask) ==
    LET f1 == _set_out_tx_out(state, dst_entr, tx_out_key)
        f2 == _get_ecdh_info_and_out_pk(f1.st, tx_out_key, dst_entr.amount,
                                        mask, amount_key)
        out_pk_dest == f2.ret[1]
        out_pk_commitment == f2.ret[2]
        ecdh_info_bin == f2.ret[3]
        s3 == [f2.st EXCEPT
                 !.full_message_hasher = Append(@, <<"set_ecdh", ecdh_info_bin>>),
                 !.output_pk_commitments = Append(@, out_pk_commitment),
                 !.last_step = STEP_OUT]
    IN Frame(s3, [tx_out |-> Some(f1.ret[1]),
                  vouti_hmac |-> Some(f1.ret[2]),
                  rsig_data |-> rsig_data_new,
                  out_pk |-> Some(<<out_pk_dest, out_pk_commitment>>),
                  ecdh_info |-> Some(ecdh_info_bin)])

\* state before _range_proof runs: validated, amount and mask appended;
\* ret: <<dst_entr, tx_out_key, amount_key>>
PreRangeProof(state, msg, random_scalar) ==
    Bind(_validate(state, msg.dst_entr, msg.dst_entr_hmac, msg.is_offloaded_bp),
         LAMBDA f0 :
    Bind(SetOutputBegin(f0.st, f0.ret), LAMBDA f1 :
    Bind(_compute_tx_keys(f1.st, f0.ret, random_scalar), LAMBDA f2 :
    Frame(f2.st, <<f0.ret, f2.ret[1], f2.ret[2]>>))))

\* ret: the acknowledgement
set_output(state, msg, random_scalar) ==
    Bind(PreRangeProof(state, msg, random_scalar), LAMBDA f2 :
    Bind(_range_proof(f2.st, msg.rsig_data), LAMBDA f3 :
    IF f3.st.is_processing_offloaded
    THEN Frame(f3.st, EmptyAck)
    ELSE SetOutputFinish(f3.st, Val(f2.ret[1]), Val(f2.ret[2]), Val(f2.ret[3]),
                         f3.ret[1], Val(f3.ret[2]))))

\* ------------------------------------------------------ the signing session
VARIABLES state, req, ack, exc
vars == <<state, req, ack, exc>>

\* ordered sequences of positive integers summing to n
Groupings(n) ==
    {g \in UNION {[1..k -> 1..n] : k \in 1..n} : PySum(g) = n}

\* the State object when the first set_output message can arrive
NewState(output_count, grouping, offload, bp_plus, add_keys, step, input_index) ==
    [last_step |-> step,
     current_input_index |-> input_index,
     input_count |-> NumInputs,
     current_output_index |-> -1,
     output_count |-> output_count,
     rsig_offload |-> offload,
     rsig_grouping |-> grouping,
     rsig_is_bp_plus |-> bp_plus,
     is_processing_offloaded |-> FALSE,
     output_amounts |-> Some(<<>>),
     output_masks |-> Some(<<>>),
     output_pk_commitments |-> <<>>,
     summary_outs_money |-> 0,
     sumout |-> 0,
     tx_prefix_hasher |-> <<>>,
     full_message_hasher |-> <<>>,
     need_additional_txkeys |-> add_keys,
     additional_tx_public_keys |-> <<>>,
     additional_tx_private_keys |-> <<>>]

Init ==
    /\ \E output_count \in 1..MaxOutputs :
       \E grouping \in Groupings(output_count) :
       \E offload \in BOOLEAN, bp_plus \in BOOLEAN, add_keys \in BOOLEAN :
       \E step \in {STEP_VINI, STEP_ALL_IN} :
       \E input_index \in {NumInputs - 2, NumInputs - 1} :
            state = NewState(output_count, grouping, offload, bp_plus, add_keys,
                             step, input_index)
    /\ req = None
    /\ ack = None
    /\ exc = NoExc

\* ------------------------------------------------------ host messages
DstEntries ==
    { [addr |-> OtherAddr, amount |-> 1, is_subaddress |-> TRUE],
      [addr |-> ChangeAddr, amount |-> 2, is_subaddress |-> FALSE],
      [addr |-> OtherAddr, amount |-> -1, is_subaddress |-> TRUE] }

\* the MACs a host can present with entry d when the next output has index i:
\* those the device issued for d at i and at the index before, the one it
\* issued at i for another entry, and one made with the host's own key
HostHmacs(s, d) ==
    LET i == s.current_output_index + 1
    IN IF IsNone(d)
       THEN {gen_hmac_tsxdest(key_hmac, CHOOSE e \in DstEntries : TRUE, i)}
       ELSE {gen_hmac_tsxdest(key_hmac, Val(d), j) : j \in {i - 1, i}}
            \cup {gen_hmac_tsxdest(key_hmac,
                                   CHOOSE e \in DstEntries : e # Val(d), i)}
            \cup {gen_hmac_tsxdest("host_key", Val(d), i)}

Serialized(rsig, bp_plus) ==
    IF bp_plus THEN _dump_rsig_bp_plus(rsig).ret ELSE _dump_rsig_bp(rsig).ret

\* the range-proof payloads a host can attach: none, an empty one, the proof
\* over the batch the device has recorded, and a proof of another statement
RsigPayloads(s) ==
    {None, Some([rsig |-> <<>>]),
     Some([rsig |-> Serialized(prove_range_bp_batch(<<0>>, <<0>>, s.rsig_is_bp_plus),
                               s.rsig_is_bp_plus)])}
    \cup IF IsNone(s.output_amounts) \/ IsNone(s.output_masks) THEN {}
         ELSE {Some([rsig |-> Serialized(
                    prove_range_bp_batch(Val(s.output_amounts), Val(s.output_masks),
                                         s.rsig_is_bp_plus),
                    s.rsig_is_bp_plus)])}

Requests(s) ==
    UNION {[dst_entr : {d},
            dst_entr_hmac : HostHmacs(s, d),
            rsig_data : RsigPayloads(s),
            is_offloaded_bp : BOOLEAN] : d \in {None} \cup {Some(e) : e \in DstEntries}}

RandomScalars == {4}

SessionAlive_AfterError == TRUE

\* a raised exception ends the signing session: no further message is served
SessionAlive == exc = NoExc

\* what a served message leaves behind
Served(msg, f) ==
    /\ state' = f.st
    /\ req' = Some(msg)
    /\ exc' = f.exc
    /\ ack' = IF f.exc = NoExc THEN Some(f.ret) ELSE None

SetOutputRequest ==
    /\ SessionAlive
    /\ \E msg \in Requests(state), random_scalar \in RandomScalars :
         Served(msg, set_output(state, msg, random_scalar))

Next == SetOutputRequest

Spec == Init /\ [][Next]_vars

\* ------------------------------------ the batching functions on their own
\* groupings of positive integers
BatchGroupings == UNION {[1..k -> 1..MaxBatchSize] : k \in 1..MaxBatches}

\* a State whose rsig_grouping is any grouping; no call made yet
BatchInit ==
    /\ \E g \in BatchGroupings :
         state = NewState(PySum(g), g, FALSE, FALSE, FALSE, STEP_ALL_IN,
                          NumInputs - 1)
    /\ req = None
    /\ ack = None
    /\ exc = NoExc

\* the indices the step passes: -1 before the first output, then the outputs;
\* output_count is one past the last
BatchIndices(s) == -1..s.output_count

\* one call of _get_rsig_batch: req is the call, ack its return value
GetRsigBatchCall ==
    \E idx \in BatchIndices(state) :
        LET r == _get_rsig_batch(state, idx)
        IN /\ req' = Some([fn |-> "_get_rsig_batch", idx |-> idx, bidx |-> 0])
           /\ ack' = Some(r.ret)
           /\ exc' = r.exc
           /\ UNCHANGED state

\* one call of _is_last_in_batch on an index and its batch, as the step
\* makes it (lines 131-132, 244-245)
IsLastInBatchCall ==
    \E idx \in BatchIndices(state) :
        LET r == _get_rsig_batch(state, idx)
        IN /\ r.exc = NoExc
           /\ req' = Some([fn |-> "_is_last_in_batch", idx |-> idx, bidx |-> r.ret])
           /\ ack' = Some(_is_last_in_batch(state, idx, r.ret))
           /\ exc' = NoExc
           /\ UNCHANGED state

BatchNext == GetRsigBatchCall \/ IsLastInBatchCall

BatchSpec == BatchInit /\ [][BatchNext]_vars

\* ----------------------------------- the proof serializers on their own
\* element counts around the limit of a count byte
LRCounts == {0, 1, 2, 3, MAX_LR - 1, MAX_LR, MAX_LR + 1, MAX_LR + 2}

\* a proof object of the given variant with nL L elements and nR R elements;
\* V, the commitment vector, is a field of the object
ProofWith(nL, nR, bp_plus) ==
    [V |-> <<"V">>, L |-> [i \in 1..nL |-> <<"L", i>>],
     R |-> [i \in 1..nR |-> <<"R", i>>]]
    @@ prove_range_bp_batch(<<0>>, <<0>>, bp_plus)

DumpInit ==
    /\ state = NewState(1, <<1>>, FALSE, FALSE, FALSE, STEP_ALL_IN, NumInputs - 1)
    /\ req = None
    /\ ack = None
    /\ exc = NoExc

\* one call of _dump_rsig_bp: req is the call, ack the buffer it returns
DumpRsigBpCall ==
    /\ IsNone(req)
    /\ \E nL \in LRCounts, nR \in LRCounts :
         LET r == _dump_rsig_bp(ProofWith(nL, nR, FALSE))
         IN /\ req' = Some([fn |-> "_dump_rsig_bp", bp_plus |-> FALSE,
                            nL |-> nL, nR |-> nR,
                            rsig |-> ProofWith(nL, nR, FALSE)])
            /\ ack' = Some(r.ret)
            /\ exc' = r.exc
            /\ UNCHANGED state

\* one call of _dump_rsig_bp_plus
DumpRsigBpPlusCall ==
    /\ IsNone(req)
    /\ \E nL \in LRCounts, nR \in LRCounts :
         LET r == _dump_rsig_bp_plus(ProofWith(nL, nR, TRUE))
         IN /\ req' = Some([fn |-> "_dump_rsig_bp_plus", bp_plus |-> TRUE,
                            nL |-> nL, nR |-> nR,
                            rsig |-> ProofWith(nL, nR, TRUE)])
            /\ ack' = Some(r.ret)
            /\ exc' = r.exc
            /\ UNCHANGED state

DumpNext == DumpRsigBpCall \/ DumpRsigBpPlusCall

DumpSpec == DumpInit /\ [][DumpNext]_vars

\* -------------------------------------- the key derivation on its own
\* an address that shares only its spend key with the change address
HalfChangeAddr == [spend_public_key |-> ChangeAddr.spend_public_key,
                   view_public_key |-> OtherAddr.view_public_key]

KeyDstEntries ==
    [addr : {ChangeAddr, OtherAddr, HalfChangeAddr}, amount : {1},
     is_subaddress : BOOLEAN]

KeyScalars == 1..MaxScalar

\* a State in which an output was just validated: any index, keys on or off
KeyInit ==
    /\ \E add_keys \in BOOLEAN, idx \in 0..(MaxOutputs - 1) :
         state = [NewState(MaxOutputs, <<MaxOutputs>>, FALSE, FALSE, add_keys,
                           STEP_OUT, NumInputs - 1)
                  EXCEPT !.current_output_index = idx]
    /\ req = None
    /\ ack = None
    /\ exc = NoExc

\* one call of _set_out_derivation, with the per-output scalar as
\* _set_out_additional_keys returns it; ack is the derivation
SetOutDerivationCall ==
    /\ IsNone(req)
    /\ \E dst \in KeyDstEntries, sc \in KeyScalars :
         LET priv == IF state.need_additional_txkeys THEN Some(sc) ELSE None
         IN /\ req' = Some([fn |-> "_set_out_derivation", dst_entr |-> dst,
                            random_scalar |-> sc])
            /\ ack' = Some(_set_out_derivation(state, dst, priv))
            /\ exc' = NoExc
            /\ UNCHANGED state

\* one call of _compute_tx_keys; ack is <<tx_out_key, amount_key>>
ComputeTxKeysCall ==
    /\ IsNone(req)
    /\ \E dst \in KeyDstEntries, sc \in KeyScalars :
         LET f == _compute_tx_keys(state, Some(dst), sc)
         IN /\ req' = Some([fn |-> "_compute_tx_keys", dst_entr |-> dst,
                            random_scalar |-> sc])
            /\ ack' = Some(f.ret)
            /\ exc' = f.exc
            /\ state' = f.st

KeyNext == SetOutDerivationCall \/ ComputeTxKeysCall

KeySpec == KeyInit /\ [][KeyNext]_vars

\* ---------------------------------------- the commitment on its own
\* a State of either variant with any running sum
CommitInit ==
    /\ \E bp_plus \in BOOLEAN, sumout \in {0, 1, GroupOrder - 1} :
         state = [NewState(1, <<1>>, FALSE, bp_plus, FALSE, STEP_OUT,
                           NumInputs - 1)
                  EXCEPT !.current_output_index = 0, !.sumout = sumout]
    /\ req = None
    /\ ack = None
    /\ exc = NoExc

\* one call of _get_ecdh_info_and_out_pk on any mask and amount; req keeps
\* the arguments and the sum before the call, ack is what it returns
EcdhInfoAndOutPkCall ==
    /\ IsNone(req)
    /\ \E mask \in 0..(GroupOrder - 1), amount \in 0..MaxAmount :
         LET f == _get_ecdh_info_and_out_pk(state, <<1, 0>>, amount, mask, 1)
         IN /\ req' = Some([fn |-> "_get_ecdh_info_and_out_pk", mask |-> mask,
                            amount |-> amount, sumout |-> state.sumout])
            /\ ack' = Some(f.ret)
            /\ exc' = f.exc
            /\ state' = f.st

CommitNext == EcdhInfoAndOutPkCall

CommitSpec == CommitInit /\ [][CommitNext]_vars

\* ------------------------------- a session with a host that follows the protocol
\* the device after the input phase: all inputs finalized
HonestInit ==
    /\ \E output_count \in 1..MaxOutputs :
       \E grouping \in Groupings(output_count) :
       \E offload \in BOOLEAN, bp_plus \in BOOLEAN, add_keys \in BOOLEAN :
            state = NewState(output_count, grouping, offload, bp_plus, add_keys,
                             STEP_ALL_IN, NumInputs - 1)
    /\ req = None
    /\ ack = None
    /\ exc = NoExc

\* the host numbers its messages
Sent == IF IsNone(req) THEN 0 ELSE Val(req).n
Numbered(msg) == msg @@ [n |-> Sent + 1]

\* the number of messages of the output phase
ExpectedMessages(s) ==
    s.output_count + (IF s.rsig_offload THEN Len(s.rsig_grouping) ELSE 0)

\* the output counts at which the host closes a batch
HostBatchEnds(g) == {PySum(SubSeq(g, 1, b)) : b \in 1..Len(g)}

\* the host owes the device the proof of the batch just closed
ProofDue(s) ==
    /\ s.rsig_offload
    /\ ~s.is_processing_offloaded
    /\ s.current_output_index + 1 \in HostBatchEnds(s.rsig_grouping)

\* the next output: a valid entry with the MAC issued for its index, no proof
HonestFirstPass ==
    /\ SessionAlive
    /\ Sent < ExpectedMessages(state)
    /\ ~ProofDue(state)
    /\ \E d \in {e \in DstEntries : e.amount >= 0}, random_scalar \in RandomScalars :
         LET msg == [dst_entr |-> Some(d),
                     dst_entr_hmac |->
                         gen_hmac_tsxdest(key_hmac, d, state.current_output_index + 1),
                     rsig_data |-> None,
                     is_offloaded_bp |-> FALSE]
         IN Served(Numbered(msg), set_output(state, msg, random_scalar))

\* the follow-up of the batch just closed, with the proof over its outputs
HonestFollowup ==
    /\ SessionAlive
    /\ Sent < ExpectedMessages(state)
    /\ ProofDue(state)
    /\ \E random_scalar \in RandomScalars :
         LET proof == Serialized(
                        prove_range_bp_batch(Val(state.output_amounts),
                                             Val(state.output_masks),
                                             state.rsig_is_bp_plus),
                        state.rsig_is_bp_plus)
             msg == [dst_entr |-> None,
                     dst_entr_hmac |-> <<>>,
                     rsig_data |-> Some([rsig |-> proof]),
                     is_offloaded_bp |-> TRUE]
         IN Served(Numbered(msg), set_output(state, msg, random_scalar))

\* any set_output message after the last one of the output phase
FurtherMessage ==
    /\ SessionAlive
    /\ Sent = ExpectedMessages(state)
    /\ \E msg \in Requests(state), random_scalar \in RandomScalars :
         Served(Numbered(msg), set_output(state, msg, random_scalar))

HonestNext == HonestFirstPass \/ HonestFollowup \/ FurtherMessage

\* the host has a message of the output phase to send: the enabling
\* condition of HonestFirstPass \/ HonestFollowup, set_output returning or
\* raising on every message
HostHasMessage == SessionAlive /\ Sent < ExpectedMessages(state)

\* weak fairness of the host's sending, WF_vars(HonestFirstPass \/
\* HonestFollowup), with the enabling condition written out: a host that
\* has a message to send eventually sends it
HostKeepsSending ==
    []<>(~HostHasMessage) \/ []<><<HonestFirstPass \/ HonestFollowup>>_vars

HonestSpec == HonestInit /\ [][HonestNext]_vars /\ HostKeepsSending

\* ======================================================== properties
Accepted == ~IsNone(req) /\ exc = NoExc
Msg == Val(req)
HasRsig(msg) == ~IsNone(msg.rsig_data) /\ Len(Val(msg.rsig_data).rsig) > 0

\* reference partition of 0..sum(g)-1 into consecutive blocks of sizes g
BatchEnd(g, b) == PySum(SubSeq(g, 1, b))
IsBatchLast(g, i) == \E b \in 1..Len(g) : BatchEnd(g, b) = i + 1
BatchesBefore(g, i) == Cardinality({b \in 1..Len(g) : BatchEnd(g, b) <= i})
ProofsHashed(h) == Cardinality({k \in 1..Len(h) : h[k][1] = "rsig_val"})

\* C1: a message is accepted only from a state whose last_step is
\* STEP_ALL_IN or STEP_OUT and whose inputs are all finalized
\* (current_input_index + 1 = input_count); an accepted first-pass message
\* leaves last_step = STEP_OUT.
C1_InputPhaseComplete ==
    [][exc' = NoExc =>
         /\ state.last_step \in {STEP_ALL_IN, STEP_OUT}
         /\ state.current_input_index + 1 = state.input_count
         /\ (~Val(req').is_offloaded_bp => state'.last_step = STEP_OUT)]_vars

C1_Witness ==
    Accepted /\ ~Msg.is_offloaded_bp /\ state.last_step = STEP_OUT
    /\ state.current_output_index = 1

\* C2: an accepted first-pass message carries an entry, and its MAC is the
\* MAC of (key_hmac, that entry, the index of the output just accepted).
C2_DestinationAuthenticated ==
    (Accepted /\ ~Msg.is_offloaded_bp) =>
        /\ ~IsNone(Msg.dst_entr)
        /\ Msg.dst_entr_hmac
             = gen_hmac_tsxdest(key_hmac, Val(Msg.dst_entr), state.current_output_index)

C2_Witness ==
    Accepted /\ ~Msg.is_offloaded_bp /\ state.current_output_index = 2
    /\ Msg.dst_entr_hmac = gen_hmac_tsxdest(key_hmac, Val(Msg.dst_entr), 2)

\* C3: current_output_index starts at -1; an accepted first-pass message
\* adds exactly 1 to it, an accepted follow-up leaves it alone, after an
\* accepted message it is below output_count, and a first-pass message that
\* would make it output_count is rejected.
C3_OutputIndexMonotonic ==
    /\ state.current_output_index = -1
    /\ [][/\ exc' = NoExc =>
               /\ state'.current_output_index
                    = state.current_output_index
                      + (IF Val(req').is_offloaded_bp THEN 0 ELSE 1)
               /\ state'.current_output_index >= state.current_output_index
               /\ state'.current_output_index < state'.output_count
          /\ (~Val(req').is_offloaded_bp
              /\ state.current_output_index + 1 = state.output_count)
             => exc' # NoExc]_vars

C3_Witness ==
    ~IsNone(req) /\ ~Msg.is_offloaded_bp /\ exc = "Invalid output index"
    /\ state.current_output_index = state.output_count

\* C4: in an offloading session, from a state where the last output of a
\* batch was accepted on its first pass and its follow-up was not, the only
\* message accepted is the follow-up (the index stays); and the number of
\* proofs folded so far is the number of batches that lie wholly before the
\* current output, plus one when the current batch's follow-up was accepted.
C4_FollowupBeforeNextBatch ==
    /\ [](state.rsig_offload /\ Accepted =>
            ProofsHashed(state.full_message_hasher)
              = BatchesBefore(state.rsig_grouping, state.current_output_index)
                + (IF IsBatchLast(state.rsig_grouping, state.current_output_index)
                      /\ state.is_processing_offloaded
                   THEN 1 ELSE 0))
    /\ [][(/\ state.rsig_offload
           /\ IsBatchLast(state.rsig_grouping, state.current_output_index)
           /\ ~state.is_processing_offloaded
           /\ exc' = NoExc)
          => /\ Val(req').is_offloaded_bp
             /\ state'.current_output_index = state.current_output_index]_vars

C4_Witness ==
    /\ Accepted /\ state.rsig_offload /\ ~Msg.is_offloaded_bp
    /\ state.rsig_grouping = <<2, 1>>
    /\ state.current_output_index = 2

\* C5: in an offloading session, a message flagged as offloaded follow-up
\* that arrives while the current output is not the last of its batch (the
\* batch is not closed; this includes the first message of the transaction)
\* is rejected, with or without a proof.
C5_EarlyFollowupRejected ==
    [][(/\ state.rsig_offload
        /\ Val(req').is_offloaded_bp
        /\ ~IsBatchLast(state.rsig_grouping, state.current_output_index))
       => exc' # NoExc]_vars

\* the output a message is about: the next one for a first pass, the
\* current one for a follow-up
OutputOf(s, msg) ==
    IF msg.is_offloaded_bp THEN s.current_output_index
    ELSE s.current_output_index + 1

ValidateErrors ==
    {"Invalid state transition", "Extraneous offloaded msg", "IndexError",
     "Offloaded BP out of order", "Destination with negative amount",
     "Invalid number of inputs", "Invalid output index", "AttributeError",
     "HMAC failed"}

\* C6: in an offloading session, a message that carries a non-empty
\* range-proof payload while the output it is about is not the last of its
\* batch is rejected: by _validate, or else with "Provided rsig too early".
C6_ProofTooEarlyRejected ==
    [][(/\ state.rsig_offload
        /\ HasRsig(Val(req'))
        /\ ~IsBatchLast(state.rsig_grouping, OutputOf(state, Val(req'))))
       => /\ exc' # NoExc
          /\ exc' \in ValidateErrors \cup {"Provided rsig too early"}]_vars

C6_Witness ==
    /\ ~IsNone(req) /\ state.rsig_offload /\ HasRsig(Msg)
    /\ exc = "Provided rsig too early"
    /\ ~Msg.is_offloaded_bp
    /\ state.current_output_index = 0

\* C7: in a non-offloading session a message that is flagged as offloaded
\* follow-up or carries a non-empty range-proof payload is rejected and adds
\* nothing to the full-message hasher.
C7_NoExternalProofWithoutOffload ==
    [][(/\ ~state.rsig_offload
        /\ (Val(req').is_offloaded_bp \/ HasRsig(Val(req'))))
       => /\ exc' # NoExc
          /\ state'.full_message_hasher = state.full_message_hasher]_vars

C7_Witness ==
    /\ ~IsNone(req) /\ ~state.rsig_offload /\ HasRsig(Msg)
    /\ exc = "Provided unexpected rsig"
    /\ state.current_output_index = 1

\* the serialized proof over the batch recorded in s
BatchProof(s) ==
    Serialized(prove_range_bp_batch(Val(s.output_amounts), Val(s.output_masks),
                                    s.rsig_is_bp_plus),
               s.rsig_is_bp_plus)

\* C8: a follow-up at the last output of a batch is accepted only if its
\* payload is the proof over the amounts and masks recorded for the batch;
\* and no message is served after a rejection.
C8_FollowupNeedsValidProof ==
    [][/\ exc = NoExc
       /\ (/\ exc' = NoExc
           /\ Val(req').is_offloaded_bp
           /\ IsBatchLast(state.rsig_grouping, state.current_output_index))
          => /\ HasRsig(Val(req'))
             /\ Val(Val(req').rsig_data).rsig = BatchProof(state)]_vars

C8_Witness ==
    /\ Accepted /\ Msg.is_offloaded_bp /\ HasRsig(Msg)
    /\ state.rsig_grouping = <<1, 2>>
    /\ state.current_output_index = 2

\* amounts and masks of outputs lo..hi (0-based), read back from the stored
\* commitments mask*G + amount*H (scaled by 1/8 in the plus variant)
Unscaled(s, k) ==
    LET C == decodepoint(s.output_pk_commitments[k + 1])
    IN IF s.rsig_is_bp_plus THEN scalarmult(C, 8) ELSE C
CommittedAmounts(s, lo, hi) == [k \in 1..(hi - lo + 1) |-> Unscaled(s, lo + k - 1)[2]]
CommittedMasks(s, lo, hi) == [k \in 1..(hi - lo + 1) |-> Unscaled(s, lo + k - 1)[1]]
BatchOf(g, i) == CHOOSE b \in 1..Len(g) : BatchEnd(g, b - 1) <= i /\ i < BatchEnd(g, b)

\* C9: for every message that makes the device generate a proof (no
\* offloading) or verify one (accepted follow-up), the accumulators handed
\* to the prover or verifier hold exactly the amounts and masks of the
\* outputs of the current batch, in output order, rsig_grouping[batch] of
\* them; _rsig_bp and _rsig_process_bp leave both accumulators empty.
C9_AccumulatorsAreTheBatch ==
    exc = NoExc =>
      \A msg \in Requests(state), random_scalar \in RandomScalars :
        LET pre == PreRangeProof(state, msg, random_scalar)
            post == set_output(state, msg, random_scalar)
            g == state.rsig_grouping
            i == pre.st.current_output_index
            b == BatchOf(g, i)
            after == IF pre.st.rsig_offload
                     THEN _rsig_process_bp(pre.st, msg.rsig_data).st
                     ELSE _rsig_bp(pre.st).st
        IN (/\ post.exc = NoExc
            /\ IsBatchLast(g, i)
            /\ (~pre.st.rsig_offload \/ pre.st.is_processing_offloaded))
           => /\ Val(pre.st.output_amounts)
                   = CommittedAmounts(post.st, BatchEnd(g, b - 1), i)
              /\ Val(pre.st.output_masks)
                   = CommittedMasks(post.st, BatchEnd(g, b - 1), i)
              /\ Len(Val(pre.st.output_amounts)) = g[b]
              /\ Len(Val(pre.st.output_masks)) = g[b]
              /\ after.output_amounts = Some(<<>>)
              /\ after.output_masks = Some(<<>>)

C9_Witness ==
    /\ Accepted /\ ~state.rsig_offload
    /\ state.rsig_grouping = <<1, 2>>
    /\ state.current_output_index = 2
    /\ ~IsNone(Val(ack).rsig_data)
    /\ Len(Val(Val(ack).rsig_data).rsig) > 0

MaxOf(g) == CHOOSE m \in {g[k] : k \in 1..Len(g)} : \A k \in 1..Len(g) : g[k] <= m

\* C10: after every accepted message the two accumulators are released
\* together or are lists of the same length, at most the largest batch size.
C10_AccumulatorsBounded ==
    Accepted =>
        /\ IsNone(state.output_amounts) <=> IsNone(state.output_masks)
        /\ ~IsNone(state.output_amounts) =>
             /\ Len(Val(state.output_amounts)) = Len(Val(state.output_masks))
             /\ Len(Val(state.output_amounts)) <= MaxOf(state.rsig_grouping)

C10_Witness ==
    /\ Accepted /\ state.rsig_offload
    /\ state.rsig_grouping = <<1, 2>>
    /\ ~IsNone(state.output_amounts)
    /\ Len(Val(state.output_amounts)) = 2

\* the transaction's final output is fully processed: its proof was
\* generated (no offloading) or its follow-up was accepted (offloading)
FinalOutputDone(s) ==
    /\ s.current_output_index + 1 = s.output_count
    /\ (~s.rsig_offload \/ s.is_processing_offloaded)

\* C11: before the first message and after every accepted message, both
\* accumulators are released (None) exactly when the final output is fully
\* processed: in local mode after the message of output output_count - 1,
\* in offload mode after the accepted follow-up of the final batch and not
\* after that batch's first pass.
C11_ReleasedExactlyAtEnd ==
    (IsNone(req) \/ Accepted) =>
        /\ IsNone(state.output_amounts) <=> FinalOutputDone(state)
        /\ IsNone(state.output_masks) <=> FinalOutputDone(state)

C11_Witness ==
    /\ Accepted /\ state.rsig_offload /\ Msg.is_offloaded_bp
    /\ state.output_count = 3
    /\ state.current_output_index = 2
    /\ IsNone(state.output_amounts) /\ IsNone(state.output_masks)

\* C12: after every accepted message sumout is the sum, modulo the group
\* order, of the masks of the outputs accepted so far (outputs
\* 0..current_output_index, read back from their commitments), each once;
\* an accepted follow-up leaves sumout as it was.  With one output accepted
\* sumout is that output's mask.
C12_SumoutIsSumOfMasks ==
    /\ [](Accepted =>
            /\ state.sumout
                 = PySum(CommittedMasks(state, 0, state.current_output_index))
                   % GroupOrder
            /\ state.current_output_index = 0
                 => state.sumout = Unscaled(state, 0)[1])
    /\ [][(exc' = NoExc /\ Val(req').is_offloaded_bp)
           => state'.sumout = state.sumout]_vars

C12_Witness ==
    /\ Accepted /\ state.current_output_index = 2
    /\ state.sumout # 0
    /\ state.sumout # Unscaled(state, 2)[1]
    /\ state.sumout = (Unscaled(state, 0)[1] + Unscaled(state, 1)[1]
                       + Unscaled(state, 2)[1]) % GroupOrder

\* C13: output_pk_commitments is append-only with one commitment per
\* accepted output in output order: no message changes a stored entry, an
\* accepted first pass appends exactly the commitment it acknowledges, any
\* other message appends nothing, and after every accepted message the length
\* is current_output_index + 1.
C13_CommitmentsAppendOnly ==
    /\ [](Accepted =>
            Len(state.output_pk_commitments) = state.current_output_index + 1)
    /\ [][IF exc' = NoExc /\ ~Val(req').is_offloaded_bp
          THEN state'.output_pk_commitments
                 = Append(state.output_pk_commitments, Val(Val(ack').out_pk)[2])
          ELSE state'.output_pk_commitments = state.output_pk_commitments]_vars

C13_Witness ==
    /\ Accepted /\ ~Msg.is_offloaded_bp
    /\ Len(state.output_pk_commitments) = 3
    /\ state.output_pk_commitments[1] # state.output_pk_commitments[3]
    /\ state.output_pk_commitments[3] = Val(Val(ack).out_pk)[2]

\* positions of the hasher input that hold the output count
Primes(h) == {k \in 1..Len(h) : h[k][1] = "uvarint"}

\* C14: the prefix hasher takes output_count at most once, as its first
\* input; the message that feeds it is a first-pass message that moves the
\* index from -1 to 0 (no follow-up and no later message feeds it again);
\* and after every accepted message with index >= 0 the input starts with
\* output_count, followed by the record of output 0.
C14_PrefixPrimedOnce ==
    /\ [](/\ Primes(state.tx_prefix_hasher) \subseteq {1}
          /\ (Accepted /\ state.current_output_index >= 0) =>
               /\ Len(state.tx_prefix_hasher) >= 2
               /\ state.tx_prefix_hasher[1] = <<"uvarint", state.output_count>>
               /\ state.tx_prefix_hasher[2][1] = "buffer")
    /\ [][Primes(state'.tx_prefix_hasher) # Primes(state.tx_prefix_hasher)
          => /\ ~Val(req').is_offloaded_bp
             /\ state.current_output_index = -1
             /\ state'.current_output_index = 0]_vars

C14_Witness ==
    /\ Accepted /\ Msg.is_offloaded_bp /\ state.rsig_offload
    /\ state.current_output_index = 0
    /\ IsBatchLast(state.rsig_grouping, 0)
    /\ Primes(state.tx_prefix_hasher) = {1}

\* h is a prefix of h2
IsPrefix(h, h2) == Len(h) <= Len(h2) /\ SubSeq(h2, 1, Len(h)) = h

\* C15: the prefix hasher is append-only (no message removes or changes
\* input already hashed); an accepted first pass appends the serialized
\* record it acknowledges as the last input, an accepted follow-up appends
\* nothing; so after every accepted message the input is output_count
\* followed by one record per output 0..current_output_index, in the order
\* the outputs were accepted.
C15_PrefixHasherTranscript ==
    /\ [](Accepted =>
            /\ Len(state.tx_prefix_hasher)
                 = (IF state.current_output_index >= 0
                    THEN state.current_output_index + 2 ELSE 0)
            /\ \A k \in 2..Len(state.tx_prefix_hasher) :
                 state.tx_prefix_hasher[k][1] = "buffer")
    /\ [][/\ IsPrefix(state.tx_prefix_hasher, state'.tx_prefix_hasher)
          /\ (exc' = NoExc /\ Val(req').is_offloaded_bp)
               => state'.tx_prefix_hasher = state.tx_prefix_hasher
          /\ (exc' = NoExc /\ ~Val(req').is_offloaded_bp)
               => state'.tx_prefix_hasher
                    = state.tx_prefix_hasher
                      \o (IF state'.current_output_index = 0
                          THEN <<<<"uvarint", state.output_count>>>>
                          ELSE <<>>)
                      \o <<<<"buffer", Val(Val(ack').tx_out)>>>>]_vars

C15_Witness ==
    /\ Accepted /\ ~Msg.is_offloaded_bp
    /\ state.current_output_index = 2
    /\ Len(state.tx_prefix_hasher) = 4
    /\ state.tx_prefix_hasher[4] = <<"buffer", Val(Val(ack).tx_out)>>
    /\ state.tx_prefix_hasher[2] # state.tx_prefix_hasher[4]

EcdhsHashed(h) == Cardinality({k \in 1..Len(h) : h[k][1] = "set_ecdh"})
\* batches whose last output has index <= i
BatchesClosedAt(g, i) == Cardinality({b \in 1..Len(g) : BatchEnd(g, b) <= i + 1})
\* the proof object a serialized proof stands for
ProofOf(s, buf) == Val(parse_msg(buf, s.rsig_is_bp_plus).ret)

\* C16: the full-message hasher is append-only.  An accepted first pass
\* appends the ECDH payload it acknowledges, preceded in local mode, when the
\* output is the last of its batch, by the proof it returns; an accepted
\* follow-up at the last output of a batch appends the proof it carries and
\* nothing else.  So after every accepted message the hasher holds one ECDH
\* payload per output 0..current_output_index and one proof per closed batch
\* (local: batches ending at or before the current output; offload: batches
\* whose follow-up was accepted).
C16_FullMessageTranscript ==
    /\ [](Accepted =>
            /\ EcdhsHashed(state.full_message_hasher)
                 = state.current_output_index + 1
            /\ ProofsHashed(state.full_message_hasher)
                 = (IF ~state.rsig_offload
                    THEN BatchesClosedAt(state.rsig_grouping,
                                         state.current_output_index)
                    ELSE BatchesBefore(state.rsig_grouping,
                                       state.current_output_index)
                         + (IF IsBatchLast(state.rsig_grouping,
                                           state.current_output_index)
                               /\ state.is_processing_offloaded
                            THEN 1 ELSE 0)))
    /\ [][/\ IsPrefix(state.full_message_hasher, state'.full_message_hasher)
          /\ (exc' = NoExc /\ Val(req').is_offloaded_bp)
               => state'.full_message_hasher
                    = state.full_message_hasher
                      \o (IF IsBatchLast(state.rsig_grouping,
                                         state.current_output_index)
                          THEN <<<<"rsig_val",
                                   ProofOf(state, Val(Val(req').rsig_data).rsig)>>>>
                          ELSE <<>>)
          /\ (exc' = NoExc /\ ~Val(req').is_offloaded_bp)
               => state'.full_message_hasher
                    = state.full_message_hasher
                      \o (IF ~state.rsig_offload
                             /\ IsBatchLast(state.rsig_grouping,
                                            state'.current_output_index)
                          THEN <<<<"rsig_val",
                                   ProofOf(state,
                                           Val(Val(Val(ack').rsig_data).rsig))>>>>
                          ELSE <<>>)
                      \o <<<<"set_ecdh", Val(Val(ack').ecdh_info)>>>>]_vars

C16_Witness ==
    /\ Accepted /\ ~state.rsig_offload
    /\ state.rsig_grouping = <<2, 1>>
    /\ state.current_output_index = 2
    /\ ProofsHashed(state.full_message_hasher) = 2
    /\ EcdhsHashed(state.full_message_hasher) = 3
    /\ state.full_message_hasher[2][1] = "rsig_val"
    /\ state.full_message_hasher[4][1] = "rsig_val"

C16_WitnessOffload ==
    /\ Accepted /\ state.rsig_offload /\ Msg.is_offloaded_bp
    /\ state.rsig_grouping = <<2, 1>>
    /\ state.current_output_index = 2
    /\ ProofsHashed(state.full_message_hasher) = 2

\* g[0] + ... + g[r], r counted from 0
PrefixSum(g, r) == PySum(SubSeq(g, 1, r + 1))

\* brute force: the batch (from b on) of every index, block after block
RECURSIVE BlockLabels(_, _)
BlockLabels(g, b) ==
    IF Len(g) = 0 THEN <<>>
    ELSE [k \in 1..Head(g) |-> b] \o BlockLabels(Tail(g), b + 1)

InRange(g, i) == 0 <= i /\ i < PySum(g)

\* C17: for a grouping g of positive integers and an index i with
\* 0 <= i < sum(g), _get_rsig_batch returns without error the smallest r
\* with g[0] + ... + g[r] > i, which is the batch of i in the brute-force
\* partition of 0..sum(g)-1 into consecutive blocks of sizes g.
C17_BatchIsSmallestPrefixSum ==
    (/\ ~IsNone(req)
     /\ Val(req).fn = "_get_rsig_batch"
     /\ InRange(state.rsig_grouping, Val(req).idx))
    => LET g == state.rsig_grouping
           i == Val(req).idx
           r == Val(ack)
       IN /\ exc = NoExc
          /\ r \in 0..(Len(g) - 1)
          /\ PrefixSum(g, r) > i
          /\ \A q \in 0..(r - 1) : PrefixSum(g, q) <= i
          /\ r = BlockLabels(g, 0)[i + 1]

C17_Witness ==
    /\ ~IsNone(req) /\ Val(req).fn = "_get_rsig_batch"
    /\ state.rsig_grouping = <<2, 3, 1>>
    /\ Val(req).idx = 4
    /\ Val(ack) = 1

\* C18: for a grouping g of positive integers and an index i with
\* 0 <= i < sum(g), _is_last_in_batch(i, batch(i)) is true exactly when
\* i + 1 = g[0] + ... + g[batch(i)]; so in each batch it is true for exactly
\* one index, the highest of the batch.
C18_LastInBatchOncePerBatch ==
    (/\ ~IsNone(req)
     /\ Val(req).fn = "_is_last_in_batch"
     /\ InRange(state.rsig_grouping, Val(req).idx))
    => LET g == state.rsig_grouping
           i == Val(req).idx
           b == Val(req).bidx
           members == {j \in 0..(PySum(g) - 1) : BlockLabels(g, 0)[j + 1] = b}
           lasts == {j \in members :
                       _is_last_in_batch(state, j, _get_rsig_batch(state, j).ret)}
       IN /\ Val(ack) <=> (i + 1 = PrefixSum(g, b))
          /\ Cardinality(lasts) = 1
          /\ \A j \in members : \A l \in lasts : j <= l

C18_Witness ==
    /\ ~IsNone(req) /\ Val(req).fn = "_is_last_in_batch"
    /\ state.rsig_grouping = <<2, 3, 1>>
    /\ Val(req).idx = 4
    /\ Val(req).bidx = 1
    /\ Val(ack) = TRUE

\* C19: once set_output has rejected a message the session serves no
\* further message: every step is taken from a state without a pending
\* exception, so nothing a rejected message left behind (advanced index,
\* offload flag, appended amounts and masks, hasher input) is read again.
C19_RejectionAbortsSession ==
    [][exc = NoExc /\ (exc' # NoExc => ack' = None)]_vars

C19_Witness ==
    /\ ~IsNone(req) /\ exc = "Rsig expected, not provided"
    /\ state.is_processing_offloaded
    /\ state.current_output_index = 1
    /\ state.current_output_index + 1 < state.output_count

\* a message whose destination entry has a negative amount
NegativeAmount(msg) == ~IsNone(msg.dst_entr) /\ Val(msg.dst_entr).amount < 0

\* C20: a message whose destination entry has amount < 0 is rejected by a
\* check that precedes the HMAC computation (never with "HMAC failed", also
\* when its MAC is wrong), and it leaves both hashers, both accumulators,
\* sumout, the money sum, output_pk_commitments and the additional tx keys
\* as they were.
C20_NegativeAmountBeforeCrypto ==
    [][NegativeAmount(Val(req')) =>
         /\ exc' \in {"Invalid state transition", "Extraneous offloaded msg",
                      "Offloaded BP out of order",
                      "Destination with negative amount"}
         /\ state'.tx_prefix_hasher = state.tx_prefix_hasher
         /\ state'.full_message_hasher = state.full_message_hasher
         /\ state'.output_amounts = state.output_amounts
         /\ state'.output_masks = state.output_masks
         /\ state'.sumout = state.sumout
         /\ state'.summary_outs_money = state.summary_outs_money
         /\ state'.output_pk_commitments = state.output_pk_commitments
         /\ state'.additional_tx_public_keys = state.additional_tx_public_keys
         /\ state'.additional_tx_private_keys = state.additional_tx_private_keys]_vars

C20_Witness ==
    /\ ~IsNone(req) /\ NegativeAmount(Msg)
    /\ exc = "Destination with negative amount"
    /\ state.current_output_index = 1
    /\ Msg.dst_entr_hmac = gen_hmac_tsxdest(key_hmac, Val(Msg.dst_entr), 1)
    /\ Len(state.tx_prefix_hasher) = 2

\* the derivation, amount key and one-time key of an output, computed from
\* the three cases of the derivation: change address, subaddress with
\* additional keys, anything else
RefDerivation(add_keys, dst, rnd) ==
    IF dst.addr = ChangeAddr
    THEN scalarmult(tx_pub, (8 * view_key_private) % GroupOrder)
    ELSE IF dst.is_subaddress /\ add_keys
    THEN scalarmult(decodepoint(dst.addr.view_public_key), (8 * rnd) % GroupOrder)
    ELSE scalarmult(decodepoint(dst.addr.view_public_key), (8 * tx_priv) % GroupOrder)
RefAmountKey(add_keys, dst, rnd, idx) ==
    derivation_to_scalar(RefDerivation(add_keys, dst, rnd), idx)
RefOutKey(add_keys, dst, rnd, idx) ==
    derive_public_key(RefDerivation(add_keys, dst, rnd), idx,
                      decodepoint(dst.addr.spend_public_key))

\* the per-output scalar the step drew for the output just accepted
DrawnScalar(s) ==
    IF s.need_additional_txkeys
    THEN s.additional_tx_private_keys[Len(s.additional_tx_private_keys)]
    ELSE 0

\* the amount key of the output just accepted in s by message msg
AcceptedAmountKey(s, msg) ==
    RefAmountKey(s.need_additional_txkeys, Val(msg.dst_entr), DrawnScalar(s),
                 s.current_output_index)

\* first 8 bytes of the encoded amount XORed with those of
\* keccak("amount" || amount_key)
MaskedAmount(amount, amount_key) ==
    <<"bytes8", BitXor(amount % GroupOrder,
                       fast_hash("amount", encodeint(amount_key))[2])>>

\* C21 (as amended): the ECDH payload returned in the ack of an accepted
\* first pass, which is also the last input of the full-message hasher, is
\* the first 8 bytes of the little-endian encoding of the amount XORed with
\* the first 8 bytes of keccak("amount" || amount_key).
C21_EcdhPayloadIsMaskedAmount ==
    (Accepted /\ ~Msg.is_offloaded_bp) =>
        LET payload == MaskedAmount(Val(Msg.dst_entr).amount,
                                    AcceptedAmountKey(state, Msg))
        IN /\ Val(ack).ecdh_info = Some(payload)
           /\ state.full_message_hasher[Len(state.full_message_hasher)]
                = <<"set_ecdh", payload>>

C21_Witness ==
    /\ Accepted /\ ~Msg.is_offloaded_bp
    /\ state.current_output_index = 1
    /\ Val(Val(ack).ecdh_info) # <<"bytes8", Val(Msg.dst_entr).amount>>
    /\ Val(Val(ack).ecdh_info)
         = MaskedAmount(Val(Msg.dst_entr).amount, AcceptedAmountKey(state, Msg))

\* C21 (as claimed): the ECDH payload of an accepted first pass is the plain
\* 8-byte little-endian encoding of the amount, no XOR or hash applied.
C21_EcdhPayloadIsPlainAmount ==
    (Accepted /\ ~Msg.is_offloaded_bp) =>
        /\ Val(ack).ecdh_info = Some(<<"bytes8", Val(Msg.dst_entr).amount>>)
        /\ state.full_message_hasher[Len(state.full_message_hasher)]
             = <<"set_ecdh", <<"bytes8", Val(Msg.dst_entr).amount>>>>

\* bytes of an output record: two single bytes and a 32-byte encoded point
RecordBytes(rec) ==
    IF Len(rec) = 3 /\ rec[1] \in 0..255 /\ rec[2] \in 0..255
       /\ rec[3][1] = "point32"
    THEN 1 + 1 + 32 ELSE 0

\* C22: the output record acknowledged by an accepted first pass is 34
\* bytes: 0x00, 0x02, then the 32-byte encoding of the output's one-time
\* key (the key also returned in out_pk); the same record is the last input
\* of the prefix hasher, and the acknowledged HMAC is the MAC under the
\* session key of (destination entry, that record, current output index).
C22_OutputRecordLayout ==
    (Accepted /\ ~Msg.is_offloaded_bp) =>
        LET rec == Val(Val(ack).tx_out)
            key == encodepoint(RefOutKey(state.need_additional_txkeys,
                                         Val(Msg.dst_entr), DrawnScalar(state),
                                         state.current_output_index))
        IN /\ rec = <<0, 2, key>>
           /\ RecordBytes(rec) = 34
           /\ Val(Val(ack).out_pk)[1] = key
           /\ state.tx_prefix_hasher[Len(state.tx_prefix_hasher)]
                = <<"buffer", rec>>
           /\ Val(Val(ack).vouti_hmac)
                = gen_hmac_vouti(key_hmac, Val(Msg.dst_entr), rec,
                                 state.current_output_index)

C22_Witness ==
    /\ Accepted /\ ~Msg.is_offloaded_bp
    /\ state.current_output_index = 2
    /\ state.need_additional_txkeys
    /\ Val(Val(ack).tx_out)[1] = 0
    /\ Val(Val(ack).tx_out)[2] = 2
    /\ Val(Val(ack).vouti_hmac)[5] = 2

\* C23: both serializers reject with an error every proof whose count of L
\* elements or count of R elements exceeds 127, and accept proofs with 0, 1
\* and 127 elements, writing each count as a single byte.
C23_CountsOver127Rejected ==
    ~IsNone(req) =>
        LET nL == Val(req).nL
            nR == Val(req).nR
        IN /\ (nL > 127 \/ nR > 127) => exc # NoExc
           /\ (nL = nR /\ nL \in {0, 1, 127}) =>
                /\ exc = NoExc
                /\ Val(ack)[7] = LenCell(nL)
                /\ Val(ack)[8 + nL] = LenCell(nR)
                /\ CellBytes(Val(ack)[7]) = 1
                /\ CellBytes(Val(ack)[8 + nL]) = 1

\* C27: for a proof with k L elements and k R elements, k <= 127, the
\* legacy buffer is 32*(9+2k)+2 bytes: A, S, T1, T2, taux, mu, the count
\* byte k, the L elements, the count byte k, the R elements, a, b, t; the
\* plus buffer is 32*(6+2k)+2 bytes: A, A1, B, r1, s1, d1, then the same
\* L/R encoding and nothing else.  V is in neither and no byte is left
\* unwritten.
C27_SerializedLayout ==
    (~IsNone(req) /\ Val(req).nL = Val(req).nR /\ Val(req).nL <= 127) =>
        LET k == Val(req).nL
            p == Val(req).rsig
            buf == Val(ack)
            lr == <<LenCell(k)>> \o [i \in 1..k |-> El32(p.L[i])]
                  \o <<LenCell(k)>> \o [i \in 1..k |-> El32(p.R[i])]
        IN /\ exc = NoExc
           /\ \A i \in 1..Len(buf) : buf[i][1] # "zeros" /\ buf[i] # El32(p.V)
           /\ IF Val(req).bp_plus
              THEN /\ BufBytes(buf) = 32 * (6 + 2 * k) + 2
                   /\ buf = <<El32(p.A), El32(p.A1), El32(p.B), El32(p.r1),
                              El32(p.s1), El32(p.d1)>> \o lr
              ELSE /\ BufBytes(buf) = 32 * (9 + 2 * k) + 2
                   /\ buf = <<El32(p.A), El32(p.S), El32(p.T1), El32(p.T2),
                              El32(p.taux), El32(p.mu)>> \o lr
                            \o <<El32(p.a), El32(p.b), El32(p.t)>>

C27_Witness ==
    /\ ~IsNone(req) /\ Val(req).bp_plus
    /\ Val(req).nL = 127 /\ Val(req).nR = 127
    /\ exc = NoExc
    /\ BufBytes(Val(ack)) = 8322
    /\ Val(ack)[135] = LenCell(127)

\* two outputs in one batch of size 2, offloading, first output accepted
ScenarioB(s) ==
    /\ s.rsig_offload
    /\ s.rsig_grouping = <<2>>
    /\ s.output_count = 2

\* a first-pass message for the next output with a non-negative entry and
\* the MAC the device issued for it
ValidFirstPass(s, msg) ==
    /\ ~msg.is_offloaded_bp
    /\ ~IsNone(msg.dst_entr)
    /\ Val(msg.dst_entr).amount >= 0
    /\ msg.dst_entr_hmac
         = gen_hmac_tsxdest(key_hmac, Val(msg.dst_entr), s.current_output_index + 1)

AckProof(a) == IF IsNone(a.rsig_data) THEN None ELSE Val(a.rsig_data).rsig
AckMask(a) == IF IsNone(a.rsig_data) THEN None ELSE Val(a.rsig_data).mask

\* C24 (as amended): in an offloading session with two outputs in one batch
\* of size 2, the first-pass request of the second output is accepted with
\* or without a proof attached, and its ack carries the wrapped mask and no
\* proof; the follow-up for that output, sent without a destination entry,
\* is accepted with an empty ack when the batch's proof is attached and
\* rejected when no proof is attached.
C24_ProofGoesWithFollowup ==
    [][/\ (/\ ScenarioB(state) /\ state.current_output_index = 0
           /\ ValidFirstPass(state, Val(req')))
          => /\ exc' = NoExc
             /\ IsNone(AckProof(Val(ack')))
             /\ ~IsNone(AckMask(Val(ack')))
       /\ (/\ ScenarioB(state) /\ state.current_output_index = 1
           /\ ~state.is_processing_offloaded
           /\ Val(req').is_offloaded_bp
           /\ IsNone(Val(req').dst_entr))
          => /\ (HasRsig(Val(req'))
                 /\ Val(Val(req').rsig_data).rsig = BatchProof(state))
                => (exc' = NoExc /\ Val(ack') = EmptyAck)
             /\ ~HasRsig(Val(req')) => exc' = "Rsig expected, not provided"]_vars

C24_Witness ==
    /\ ScenarioB(state) /\ state.current_output_index = 1
    /\ Accepted /\ ~Msg.is_offloaded_bp /\ HasRsig(Msg)
    /\ IsNone(AckProof(Val(ack)))
    /\ ~IsNone(AckMask(Val(ack)))

\* C24 (as claimed): in that session the request for the second output
\* succeeds when a proof is attached, and its ack then carries a proof; the
\* same request without a proof is rejected.
C24_ProofOnSecondRequest ==
    [][(/\ ScenarioB(state) /\ state.current_output_index = 0
        /\ ValidFirstPass(state, Val(req')))
       => IF HasRsig(Val(req'))
          THEN exc' = NoExc /\ ~IsNone(AckProof(Val(ack')))
          ELSE exc' # NoExc]_vars

\* the serialized proof over the batch that ends at the current output of
\* s, from the amounts and masks committed for its outputs
ClosedBatchProof(s) ==
    LET g == s.rsig_grouping
        i == s.current_output_index
        lo == BatchEnd(g, BatchOf(g, i) - 1)
    IN Serialized(prove_range_bp_batch(CommittedAmounts(s, lo, i),
                                       CommittedMasks(s, lo, i),
                                       s.rsig_is_bp_plus),
                  s.rsig_is_bp_plus)

\* C25: the range-proof data in the ack of an accepted first pass: in an
\* offloading session it is, for every output, the encoded mask of that
\* output and no proof; in a non-offloading session it is absent for an
\* output that is not the last of its batch, and for the last output of a
\* batch it is the generated proof over the batch, without a mask.
C25_AckRsigDataByMode ==
    (Accepted /\ ~Msg.is_offloaded_bp) =>
        LET rd == Val(ack).rsig_data
            i == state.current_output_index
        IN IF state.rsig_offload
           THEN rd = Some([mask |-> Some(encodeint(Unscaled(state, i)[1])),
                           rsig |-> None])
           ELSE IF IsBatchLast(state.rsig_grouping, i)
           THEN rd = Some([mask |-> None, rsig |-> Some(ClosedBatchProof(state))])
           ELSE rd = None

C25_Witness ==
    /\ Accepted /\ ~Msg.is_offloaded_bp /\ state.rsig_offload
    /\ state.rsig_grouping = <<2, 1>>
    /\ state.current_output_index = 1
    /\ ~IsNone(AckMask(Val(ack)))
    /\ IsNone(AckProof(Val(ack)))

C25_WitnessLocal ==
    /\ Accepted /\ ~state.rsig_offload
    /\ state.rsig_grouping = <<2, 1>>
    /\ state.current_output_index = 1
    /\ IsNone(AckMask(Val(ack)))
    /\ ~IsNone(AckProof(Val(ack)))

\* C26: an accepted offloaded follow-up returns an ack with no output
\* record, HMAC, range-proof data, output public keys or ECDH payload, and
\* changes nothing of the state but is_processing_offloaded, the
\* full-message hasher and the two accumulators: current_output_index,
\* last_step, the prefix hasher, sumout, summary_outs_money,
\* output_pk_commitments and the additional-key lists stay as they were.
C26_FollowupFrame ==
    [][(exc' = NoExc /\ Val(req').is_offloaded_bp) =>
         /\ Val(ack') = EmptyAck
         /\ state'.is_processing_offloaded
         /\ state' = [state EXCEPT
                        !.is_processing_offloaded = TRUE,
                        !.full_message_hasher = state'.full_message_hasher,
                        !.output_amounts = state'.output_amounts,
                        !.output_masks = state'.output_masks]]_vars

C26_Witness ==
    /\ Accepted /\ Msg.is_offloaded_bp /\ HasRsig(Msg)
    /\ state.need_additional_txkeys
    /\ state.rsig_grouping = <<2, 1>>
    /\ state.current_output_index = 1
    /\ Len(state.additional_tx_private_keys) = 2
    /\ state.output_amounts = Some(<<>>)
    /\ Val(ack) = EmptyAck

\* C28: with additional tx keys enabled, after every accepted message both
\* key lists have length current_output_index + 1, and an accepted first
\* pass appends to them one drawn scalar s and one public key: s*D for a
\* subaddress destination with spend key D, s*G otherwise.  With them
\* disabled both lists stay empty.
C28_AdditionalKeysPerOutput ==
    /\ [](/\ ~state.need_additional_txkeys =>
               /\ state.additional_tx_public_keys = <<>>
               /\ state.additional_tx_private_keys = <<>>
          /\ (state.need_additional_txkeys /\ Accepted) =>
               /\ Len(state.additional_tx_public_keys)
                    = state.current_output_index + 1
               /\ Len(state.additional_tx_private_keys)
                    = state.current_output_index + 1)
    /\ [][(/\ state.need_additional_txkeys
           /\ exc' = NoExc /\ ~Val(req').is_offloaded_bp)
          => \E sc \in RandomScalars :
               LET dst == Val(Val(req').dst_entr)
                   pub == IF dst.is_subaddress
                          THEN scalarmult(decodepoint(dst.addr.spend_public_key), sc)
                          ELSE scalarmult_base(sc)
               IN /\ state'.additional_tx_private_keys
                       = Append(state.additional_tx_private_keys, sc)
                  /\ state'.additional_tx_public_keys
                       = Append(state.additional_tx_public_keys, encodepoint(pub))]_vars

C28_Witness ==
    /\ Accepted /\ ~Msg.is_offloaded_bp /\ state.need_additional_txkeys
    /\ state.current_output_index = 2
    /\ Len(state.additional_tx_public_keys) = 3
    /\ Val(Msg.dst_entr).is_subaddress
    /\ state.additional_tx_public_keys[3] = encodepoint(<<5, 0>>)
    /\ state.additional_tx_public_keys[1] = encodepoint(<<4, 0>>)

\* C29: the derivation of an output is view_key_private applied to tx_pub
\* when the destination is the change address (also for a subaddress with
\* additional keys enabled); otherwise the per-output scalar applied to the
\* destination view key when the destination is a subaddress and additional
\* keys are enabled; otherwise tx_priv applied to the destination view key.
\* The amount key and the one-time key returned by _compute_tx_keys are
\* derived from it with the current output index.
C29_DerivationCases ==
    ~IsNone(req) =>
        LET dst == Val(req).dst_entr
            sc == Val(req).random_scalar
            add_keys == state.need_additional_txkeys
            expected ==
                IF dst.addr = ChangeAddr
                THEN scalarmult(tx_pub, (8 * view_key_private) % GroupOrder)
                ELSE IF dst.is_subaddress /\ add_keys
                THEN scalarmult(decodepoint(dst.addr.view_public_key),
                                (8 * sc) % GroupOrder)
                ELSE scalarmult(decodepoint(dst.addr.view_public_key),
                                (8 * tx_priv) % GroupOrder)
        IN IF Val(req).fn = "_set_out_derivation"
           THEN Val(ack) = expected
           ELSE /\ exc = NoExc
                /\ Val(ack)[2]
                     = Some(derivation_to_scalar(expected, state.current_output_index))
                /\ Val(ack)[1]
                     = Some(derive_public_key(expected, state.current_output_index,
                                              decodepoint(dst.addr.spend_public_key)))

C29_Witness ==
    /\ ~IsNone(req) /\ Val(req).fn = "_compute_tx_keys"
    /\ Val(req).dst_entr.addr = ChangeAddr
    /\ Val(req).dst_entr.is_subaddress
    /\ state.need_additional_txkeys
    /\ state.current_output_index = 2
    /\ Val(req).random_scalar = 3
    /\ Val(ack)[2]
         = Some(derivation_to_scalar(
                  scalarmult(tx_pub, (8 * view_key_private) % GroupOrder), 2))

\* mask*G + amount*H
LegacyCommitment(mask, amount) ==
    point_add(scalarmult(<<1, 0>>, mask), scalarmult(xmr_H, amount % GroupOrder))

\* C30: for every mask and amount the commitment stored for the plus
\* variant is C8 = (mask*inv8)*G + (amount*inv8)*H and 8*C8 is the legacy
\* commitment mask*G + amount*H; the legacy variant stores mask*G +
\* amount*H; in both variants sumout grows by the unscaled mask.
C30_PlusCommitmentTimesEight ==
    ~IsNone(req) =>
        LET mask == Val(req).mask
            amount == Val(req).amount
            C == decodepoint(Val(ack)[2])
        IN /\ exc = NoExc
           /\ state.sumout = (Val(req).sumout + mask) % GroupOrder
           /\ IF state.rsig_is_bp_plus
              THEN /\ C = point_add(scalarmult(<<1, 0>>, (mask * INV_EIGHT) % GroupOrder),
                                    scalarmult(xmr_H, (amount * INV_EIGHT) % GroupOrder))
                   /\ scalarmult(C, 8) = LegacyCommitment(mask, amount)
              ELSE C = LegacyCommitment(mask, amount)

C30_Witness ==
    /\ ~IsNone(req) /\ state.rsig_is_bp_plus
    /\ Val(req).mask = 3 /\ Val(req).amount = 12
    /\ Val(req).sumout = GroupOrder - 1
    /\ state.sumout = 2
    /\ decodepoint(Val(ack)[2]) # LegacyCommitment(3, 12)
    /\ scalarmult(decodepoint(Val(ack)[2]), 8) = LegacyCommitment(3, 12)

\* C31: in an offloading session, after the follow-up of a batch was
\* accepted, a second message flagged as follow-up at the same output index
\* is rejected with "Offloaded BP out of order" and leaves the state as it
\* was; in every state, rejected messages included, the number of proofs
\* folded into the full-message hasher is at most the number of batches
\* closed up to the current output, so no batch's proof is folded or
\* verified twice.
C31_FollowupAcceptedOnce ==
    /\ [](state.rsig_offload =>
            ProofsHashed(state.full_message_hasher)
              <= BatchesBefore(state.rsig_grouping, state.current_output_index + 1))
    /\ [][(/\ state.rsig_offload
           /\ Accepted /\ Msg.is_offloaded_bp
           /\ IsBatchLast(state.rsig_grouping, state.current_output_index)
           /\ Val(req').is_offloaded_bp)
          => /\ exc' = "Offloaded BP out of order"
             /\ state' = state]_vars

C31_Witness ==
    /\ state.rsig_offload /\ state.is_processing_offloaded
    /\ ~IsNone(req) /\ Msg.is_offloaded_bp /\ HasRsig(Msg)
    /\ exc = "Offloaded BP out of order"
    /\ state.rsig_grouping = <<1, 2>>
    /\ state.current_output_index = 0
    /\ ProofsHashed(state.full_message_hasher) = 1

\* C32: in an offloading session every accepted first pass appends one mask
\* and one amount to the accumulators and returns that very mask in its ack;
\* every accepted flagged message derives no key and reaches the range-proof
\* step with the accumulators as they were; the follow-up of a batch
\* verifies its proof against these accumulators, which hold one entry per
\* output of the batch, and leaves them empty (released after the final
\* batch).  So the masks a batch's proof is verified against are the masks
\* acknowledged for the batch's outputs, in output order.
C32_VerifiedMasksAreAckedMasks ==
    [][(state.rsig_offload /\ exc = NoExc /\ exc' = NoExc) =>
         LET msg == Val(req')
             g == state.rsig_grouping
             i == state.current_output_index
         IN IF ~msg.is_offloaded_bp
            THEN /\ ~IsNone(AckMask(Val(ack')))
                 /\ \E m \in 0..(GroupOrder - 1) :
                      /\ Val(AckMask(Val(ack'))) = encodeint(m)
                      /\ state'.output_masks = Some(Append(Val(state.output_masks), m))
                 /\ state'.output_amounts
                      = Some(Append(Val(state.output_amounts), Val(msg.dst_entr).amount))
            ELSE \A random_scalar \in RandomScalars :
                 LET pre == PreRangeProof(state, msg, random_scalar)
                 IN /\ pre.exc = NoExc
                    /\ pre.ret = <<None, None, None>>
                    /\ pre.st.output_masks = state.output_masks
                    /\ pre.st.output_amounts = state.output_amounts
                    /\ IF IsBatchLast(g, i)
                       THEN /\ Len(Val(state.output_masks)) = g[BatchOf(g, i)]
                            /\ Len(Val(state.output_amounts)) = g[BatchOf(g, i)]
                            /\ verify_bp(Val(parse_msg(Val(msg.rsig_data).rsig,
                                                       state.rsig_is_bp_plus).ret),
                                         Val(state.output_amounts),
                                         Val(state.output_masks))
                            /\ state'.output_masks
                                 = IF i + 1 = state.output_count THEN None
                                   ELSE Some(<<>>)
                            /\ state'.output_amounts = state'.output_masks
                       ELSE /\ state'.output_masks = state.output_masks
                            /\ state'.output_amounts = state.output_amounts]_vars

\* the follow-up of a batch of two outputs was accepted
C32_Witness ==
    /\ Accepted /\ state.rsig_offload /\ Msg.is_offloaded_bp /\ HasRsig(Msg)
    /\ state.rsig_grouping = <<2, 1>>
    /\ state.current_output_index = 1
    /\ state.output_masks = Some(<<>>)
    /\ LET bp == Val(parse_msg(Val(Msg.rsig_data).rsig, state.rsig_is_bp_plus).ret)
       IN /\ Len(bp.A[3]) = 2
          /\ bp.A[3][1] # bp.A[3][2]
          /\ bp.A[3] = CommittedMasks(state, 0, 1)

\* C33: with a host that follows the protocol no message of the output
\* phase is rejected and the phase completes: the host gets to send all its
\* output_count (local) or output_count + len(rsig_grouping) (offload)
\* messages; after exactly that many, and not before, current_output_index
\* is output_count - 1 and both accumulators are released; every further
\* set_output message is rejected.
C33_OutputPhaseCompletes ==
    /\ [](/\ Sent <= ExpectedMessages(state) => exc = NoExc
          /\ Sent < ExpectedMessages(state) =>
               /\ ~IsNone(state.output_amounts) /\ ~IsNone(state.output_masks)
               /\ (state.current_output_index < state.output_count - 1
                   \/ (state.rsig_offload /\ ~state.is_processing_offloaded))
          /\ Sent = ExpectedMessages(state) =>
               /\ state.current_output_index = state.output_count - 1
               /\ IsNone(state.output_amounts) /\ IsNone(state.output_masks)
               /\ Len(state.output_pk_commitments) = state.output_count
          /\ Sent > ExpectedMessages(state) => exc # NoExc /\ ack = None)
    /\ <>(Sent = ExpectedMessages(state) /\ exc = NoExc)

C33_Witness ==
    /\ state.rsig_offload
    /\ state.rsig_grouping = <<2, 1>>
    /\ Sent = 5
    /\ Val(req).is_offloaded_bp
    /\ exc = NoExc
    /\ state.current_output_index = 2
    /\ IsNone(state.output_amounts) /\ IsNone(state.output_masks)

C33_WitnessFurther ==
    /\ ~state.rsig_offload
    /\ state.output_count = 3
    /\ Sent = 4
    /\ exc = "Invalid output index"

====
